---- MODULE Spec2Model ----
(***************************************************************************)
(* A model of Julia's late GC-frame lowering pass                          *)
(* (src/src/llvm-late-gc-lowering.cpp).                                    *)
(*                                                                         *)
(* The input function F is a list of basic blocks, each a list of          *)
(* instructions; the pass state is the C++ `State S`.  The phases of       *)
(* runOnFunction are the actions: the local scan (one block per step), the *)
(* dataflow iteration (one block visit per step), the live sets, the       *)
(* colouring (one PEOIterator::next per step), the root placement and the  *)
(* cleanup.                                                                *)
(*                                                                         *)
(* A BitVector is modelled as the set of its set bits.  The places where   *)
(* the code depends on a BitVector's size are MaybeResize (which keeps     *)
(* Defs at least as long as LiveOut, so that flip() covers every bit of    *)
(* LiveOut) and HasBitSet (a bounds-checked read); with both in place a    *)
(* missing bit always reads as 0, which is what a set gives.  Pointee      *)
(* types are not modelled, only the address space of a pointer type.       *)
(***************************************************************************)
EXTENDS Integers, Sequences, FiniteSets, TLC

VARIABLES
    F,          \* the function being compiled (its IR)
    S,          \* struct State
    pc,         \* the phase runOnFunction is in
    scanBB,     \* LocalScan: the block the outer loop is at
    rpoPos,     \* ComputeLiveness: position in the reverse post-order
    AnyChanged, \* ComputeLiveness: the flag of the current pass
    CR,         \* ColorRoots' locals (Colors, PreAssignedColors, Ordering, ...)
    Out         \* what PlaceRootsAndUpdateCalls emitted, and the return value

vars == <<F, S, pc, scanBB, rpoPos, AnyChanged, CR, Out>>

----------------------------------------------------------------------------
(* Generic helpers *)

Range(s) == {s[k] : k \in DOMAIN s}

EmptyMap == [x \in {} |-> 0]

Max(a, b) == IF a > b THEN a ELSE b

RECURSIVE SetToSortedSeq(_)
SetToSortedSeq(X) ==
    IF X = {} THEN <<>>
    ELSE LET m == CHOOSE x \in X : \A y \in X : x <= y
         IN <<m>> \o SetToSortedSeq(X \ {m})

Reverse(s) == [k \in 1..Len(s) |-> s[Len(s) + 1 - k]]

IndexOf(s, x) == CHOOSE k \in DOMAIN s : s[k] = x

----------------------------------------------------------------------------
(* The IR.  A value is named by a positive integer.  An instruction is a   *)
(* record; `ty` is the address space of a pointer result ("Tracked",       *)
(* "Derived", "Generic") or "Void" / "Int" for a non-pointer.              *)

Inst(name, op, ty, args) ==
    [name |-> name, op |-> op, ty |-> ty, args |-> args,
     callee |-> "", rt |-> FALSE, immut |-> FALSE, inc |-> <<>>, lanes |-> 0, elt |-> "", idx |-> -1, cc |-> "C"]

Arg(name, ty)   == Inst(name, "arg", ty, <<>>)
Load(name, ty, ptr) == Inst(name, "load", ty, <<ptr>>)
LoadImmut(name, ty, ptr) == [Inst(name, "load", ty, <<ptr>>) EXCEPT !.immut = TRUE]
Store(name, val, ptr) == Inst(name, "store", "Void", <<val, ptr>>)
CallTo(name, callee, ty, args) == [Inst(name, "call", ty, args) EXCEPT !.callee = callee]
Call(name, ty, args) == CallTo(name, "fn", ty, args)
CallRT(name, ty, args) == [Call(name, ty, args) EXCEPT !.rt = TRUE]
Phi(name, ty, vals, blocks) == [Inst(name, "phi", ty, vals) EXCEPT !.inc = blocks]
Alloca(name, elt) == [Inst(name, "alloca", "Generic", <<>>) EXCEPT !.elt = elt]
Ret(name, args) == Inst(name, "ret", "Void", args)
Br(name) == Inst(name, "br", "Void", <<>>)
Unreachable(name) == Inst(name, "unreachable", "Void", <<>>)

Block(insts, succs) == [insts |-> insts, succs |-> succs]

AllValues(Fn) ==
    Range(Fn.params) \cup UNION {Range(Fn.blocks[b].insts) : b \in DOMAIN Fn.blocks}

Blocks(Fn) == DOMAIN Fn.blocks

successors(Fn, b) == Fn.blocks[b].succs

predecessors(Fn, b) ==
    SetToSortedSeq({p \in Blocks(Fn) : b \in Range(Fn.blocks[p].succs)})

isSpecialPtr(ty) == ty \in {"Tracked", "Derived", "CalleeRooted"}

isPointerTy(ty) == ty \in {"Tracked", "Derived", "CalleeRooted", "Generic"}

isSpecialPtrVec(ty) == ty = "TrackedVec"

isUnionRep(ty) == ty = "Union"

\* The null pointer constant of the tracked pointer type.
NullValue == Inst(0, "const", "Tracked", <<>>)

Values(Fn) == AllValues(Fn) \cup {NullValue}

InfoOf(Fn, v) == CHOOSE r \in Values(Fn) : r.name = v

BlockOf(Fn, v) ==
    CHOOSE b \in Blocks(Fn) : \E k \in DOMAIN Fn.blocks[b].insts : Fn.blocks[b].insts[k].name = v

\* Instruction `new` inserted immediately before instruction `before`.
InsertBefore(Fn, new, before) ==
    LET b == BlockOf(Fn, before)
        is == Fn.blocks[b].insts
        k == CHOOSE j \in DOMAIN is : is[j].name = before
    IN [Fn EXCEPT !.blocks[b].insts = SubSeq(is, 1, k - 1) \o <<new>> \o SubSeq(is, k, Len(is)),
                  !.next = @ + 1]

----------------------------------------------------------------------------
(* struct BBState and struct State *)

EmptyBBState ==
    [Defs |-> {}, PhiOuts |-> {}, UpExposedUsesUnrooted |-> {}, UpExposedUses |-> {},
     DownExposedUnrooted |-> {}, LiveIn |-> {}, LiveOut |-> {},
     UnrootedIn |-> {}, UnrootedOut |-> {},
     Safepoints |-> <<>>, TopmostSafepoint |-> -1, HasSafepoint |-> FALSE, Done |-> FALSE]

\* State(): the maps are empty; BBStates[b] is what std::map's operator[]
\* default-constructs on first access.  LiveSets, LiveIfLiveOut and
\* ReverseSafepointNumbering hold safepoint n at index n + 1, Neighbors
\* holds identifier i at index i + 1.
EmptyState(Fn) ==
    [MaxPtrNumber |-> -1, MaxSafepointNumber |-> -1,
     AllPtrNumbering |-> EmptyMap, AllVectorNumbering |-> EmptyMap,
     PtrNumbering |-> EmptyMap, ReversePtrNumbering |-> EmptyMap,
     Neighbors |-> <<>>,
     BBStates |-> [b \in Blocks(Fn) |-> EmptyBBState],
     LoadRefinements |-> EmptyMap,
     SafepointNumbering |-> EmptyMap, ReverseSafepointNumbering |-> <<>>,
     ReturnsTwice |-> <<>>,
     LiveSets |-> <<>>, LiveIfLiveOut |-> <<>>,
     Allocas |-> <<>>]

Put(m, k, v) == (k :> v) @@ m

----------------------------------------------------------------------------
(* Numbering.  The context a numbering call works on is a record C of the   *)
(* IR (lifting inserts instructions) and the State; a call gives back the   *)
(* context and the number(s).                                               *)

\* A variant of FindBaseValue that takes a GEP for a base.
RECURSIVE FindBaseValueStopAtGEP(_, _, _, _)
FindBaseValueStopAtGEP(Fn, St, V, UseCache) ==
    LET d == InfoOf(Fn, V)
        cached == IF isPointerTy(d.ty) THEN V \in DOMAIN St.AllPtrNumbering
                  ELSE V \in DOMAIN St.AllVectorNumbering
    IN IF UseCache /\ cached THEN V
       ELSE IF d.op = "bitcast" THEN FindBaseValueStopAtGEP(Fn, St, d.args[1], UseCache)
       ELSE IF d.op = "addrspacecast" THEN
            IF InfoOf(Fn, d.args[1]).ty = "Generic" THEN V
            ELSE FindBaseValueStopAtGEP(Fn, St, d.args[1], UseCache)
       ELSE IF d.op = "extractvalue" THEN
            IF ~isUnionRep(InfoOf(Fn, d.args[1]).ty) THEN V
            ELSE FindBaseValueStopAtGEP(Fn, St, d.args[1], UseCache)
       ELSE V

RECURSIVE FindBaseValue(_, _, _, _)
FindBaseValue(Fn, St, V, UseCache) ==
    LET d == InfoOf(Fn, V)
        cached == IF isPointerTy(d.ty) THEN V \in DOMAIN St.AllPtrNumbering
                  ELSE V \in DOMAIN St.AllVectorNumbering
    IN IF UseCache /\ cached THEN V
       ELSE IF d.op = "bitcast" THEN FindBaseValue(Fn, St, d.args[1], UseCache)
       ELSE IF d.op = "addrspacecast" THEN
            IF InfoOf(Fn, d.args[1]).ty = "Generic" THEN V
            ELSE FindBaseValue(Fn, St, d.args[1], UseCache)
       ELSE IF d.op = "gep" THEN FindBaseValue(Fn, St, d.args[1], UseCache)
       ELSE IF d.op = "extractvalue" THEN
            IF ~isUnionRep(InfoOf(Fn, d.args[1]).ty) THEN V
            ELSE FindBaseValue(Fn, St, d.args[1], UseCache)
       ELSE V

\* MaybeExtractUnion: a union-represented base gets an extractvalue of
\* field 0, inserted before the instruction.
MaybeExtractUnion(Fn, Val, InsertBeforeI) ==
    IF isUnionRep(InfoOf(Fn, Val).ty)
    THEN [F |-> InsertBefore(Fn, Inst(Fn.next, "extractvalue", "Tracked", <<Val>>), InsertBeforeI),
          Val |-> Fn.next]
    ELSE [F |-> Fn, Val |-> Val]

\* A variant of LiftSelect that leaves the select it lifts out of
\* AllPtrNumbering.
LiftSelectBasesUnrecorded(C, SI, e1, e2) ==
    LET tTracked == InfoOf(e2.F, e1.Val).ty = "Tracked"
        fTracked == InfoOf(e2.F, e2.Val).ty = "Tracked"
        TrueBase == IF tTracked THEN e1.Val ELSE NullValue.name
        FalseBase == IF fTracked THEN e2.Val ELSE NullValue.name
        SelectBase == e2.F.next
        Num == C.S.MaxPtrNumber + 1
    IN IF ~tTracked /\ ~fTracked THEN [C |-> [C EXCEPT !.F = e2.F], Num |-> -1]
       ELSE [C |-> [F |-> InsertBefore(e2.F, Inst(SelectBase, "select", "Tracked",
                                                   <<TrueBase, FalseBase>>), SI),
                    S |-> [C.S EXCEPT
                            !.MaxPtrNumber = Num,
                            !.PtrNumbering = Put(@, SelectBase, Num),
                            !.AllPtrNumbering = Put(@, SelectBase, Num),
                            !.ReversePtrNumbering = Put(@, Num, SelectBase)]],
             Num |-> Num]

\* LiftSelect once both bases are known (e1, e2: the results of
\* MaybeExtractUnion for the true and the false value).
LiftSelectBases(C, SI, e1, e2) ==
    LET tTracked == InfoOf(e2.F, e1.Val).ty = "Tracked"
        fTracked == InfoOf(e2.F, e2.Val).ty = "Tracked"
        TrueBase == IF tTracked THEN e1.Val ELSE NullValue.name
        FalseBase == IF fTracked THEN e2.Val ELSE NullValue.name
        SelectBase == e2.F.next
        Num == C.S.MaxPtrNumber + 1
    IN IF ~tTracked /\ ~fTracked THEN [C |-> [C EXCEPT !.F = e2.F], Num |-> -1]
       ELSE [C |-> [F |-> InsertBefore(e2.F, Inst(SelectBase, "select", "Tracked",
                                                   <<TrueBase, FalseBase>>), SI),
                    S |-> [C.S EXCEPT
                            !.MaxPtrNumber = Num,
                            !.PtrNumbering = Put(@, SelectBase, Num),
                            !.AllPtrNumbering = Put(Put(@, SI, Num), SelectBase, Num),
                            !.ReversePtrNumbering = Put(@, Num, SelectBase)]],
             Num |-> Num]

LiftSelectTrue(C, SI, e1) ==
    LiftSelectBases(C, SI, e1,
        MaybeExtractUnion(e1.F, FindBaseValue(C.F, C.S, InfoOf(C.F, SI).args[2], FALSE), SI))

LiftSelect(C, SI) ==
    LiftSelectTrue(C, SI,
        MaybeExtractUnion(C.F, FindBaseValue(C.F, C.S, InfoOf(C.F, SI).args[1], FALSE), SI))

\* A variant of LiftPhi that numbers the phi it lifts and leaves the lifted
\* phi out of the numbering.
LiftPhiUnrecorded(C, PhiI) ==
    LET d == InfoOf(C.F, PhiI)
        base(i) == FindBaseValue(C.F, C.S, d.args[i], FALSE)
        Incoming == [i \in DOMAIN d.args |->
                        IF InfoOf(C.F, base(i)).ty # "Tracked" THEN NullValue.name ELSE base(i)]
    IN [C |-> [F |-> InsertBefore(C.F, [Inst(C.F.next, "phi", "Tracked", Incoming)
                                          EXCEPT !.inc = d.inc], PhiI),
               S |-> [C.S EXCEPT
                        !.MaxPtrNumber = @ + 1,
                        !.AllPtrNumbering = Put(@, PhiI, C.S.MaxPtrNumber + 1),
                        !.ReversePtrNumbering = Put(@, C.S.MaxPtrNumber + 1, C.F.next)]],
        Num |-> C.S.MaxPtrNumber + 1]

LiftPhi(C, PhiI) ==
    LET d == InfoOf(C.F, PhiI)
        base(i) == FindBaseValue(C.F, C.S, d.args[i], FALSE)
        Incoming == [i \in DOMAIN d.args |->
                        IF InfoOf(C.F, base(i)).ty # "Tracked" THEN NullValue.name ELSE base(i)]
        lift == C.F.next
        Num == C.S.MaxPtrNumber + 1
    IN [C |-> [F |-> InsertBefore(C.F, [Inst(lift, "phi", "Tracked", Incoming)
                                          EXCEPT !.inc = d.inc], PhiI),
               S |-> [C.S EXCEPT
                        !.MaxPtrNumber = Num,
                        !.PtrNumbering = Put(@, lift, Num),
                        !.AllPtrNumbering = Put(Put(@, PhiI, Num), lift, Num),
                        !.ReversePtrNumbering = Put(@, Num, lift)]],
        Num |-> Num]

\* S.AllPtrNumbering[V] = Number, for the number r a lift gave.
NumberLifted(r, V) ==
    [C |-> [r.C EXCEPT !.S.AllPtrNumbering = Put(@, V, r.Num)], Num |-> r.Num]

\* Number after CurrentV = FindBaseValue(S, V).
NumberBase(C, V, CurrentV) ==
    LET d == InfoOf(C.F, CurrentV)
        Num == C.S.MaxPtrNumber + 1
    IN IF CurrentV \in DOMAIN C.S.AllPtrNumbering
       THEN [C |-> C, Num |-> C.S.AllPtrNumbering[CurrentV]]
       ELSE IF d.op \in {"const", "arg"}
               \/ (d.op \in {"alloca", "addrspacecast"} /\ d.ty # "Tracked")
       THEN \* rooted in the parent
            [C |-> [C EXCEPT !.S.PtrNumbering = Put(@, CurrentV, -1),
                             !.S.AllPtrNumbering = Put(Put(@, V, -1), CurrentV, -1)],
             Num |-> -1]
       ELSE IF d.op = "select" /\ d.ty # "Tracked"
       THEN NumberLifted(LiftSelect(C, CurrentV), V)
       ELSE IF d.op = "phi" /\ d.ty # "Tracked"
       THEN NumberLifted(LiftPhi(C, CurrentV), V)
       ELSE [C |-> [C EXCEPT !.S.MaxPtrNumber = Num,
                             !.S.ReversePtrNumbering = Put(@, Num, CurrentV),
                             !.S.PtrNumbering = Put(@, CurrentV, Num),
                             !.S.AllPtrNumbering = Put(Put(@, V, Num), CurrentV, Num)],
             Num |-> Num]

Number(C, V) == NumberBase(C, V, FindBaseValue(C.F, C.S, V, TRUE))

\* NumberVector after CurrentV = FindBaseValue(S, V): only a vector load is
\* numbered, one fresh identifier per lane; the result is read back from
\* AllVectorNumbering[CurrentV], which operator[] creates empty when it is
\* absent.
NumberVectorBase(C, V, CurrentV) ==
    LET d == InfoOf(C.F, CurrentV)
        Numbers == [i \in 1..d.lanes |-> C.S.MaxPtrNumber + i]
        readBack(St) == IF CurrentV \in DOMAIN St.AllVectorNumbering
                        THEN [C |-> [C EXCEPT !.S = St], Nums |-> St.AllVectorNumbering[CurrentV]]
                        ELSE [C |-> [C EXCEPT !.S = [St EXCEPT !.AllVectorNumbering =
                                                              Put(@, CurrentV, <<>>)]],
                              Nums |-> <<>>]
    IN IF V \in DOMAIN C.S.AllVectorNumbering
       THEN [C |-> C, Nums |-> C.S.AllVectorNumbering[V]]
       ELSE IF CurrentV \in DOMAIN C.S.AllVectorNumbering
       THEN [C |-> C, Nums |-> C.S.AllVectorNumbering[CurrentV]]
       ELSE IF d.op = "const"
               \/ (d.op \in {"arg", "alloca", "addrspacecast"} /\ d.ty # "Tracked")
       THEN readBack([C.S EXCEPT !.AllVectorNumbering = Put(@, V, <<>>)])
       ELSE IF d.op = "load"
       THEN readBack([C.S EXCEPT
                !.MaxPtrNumber = @ + d.lanes,
                !.ReversePtrNumbering = [n \in Range(Numbers) |-> V] @@ @,
                !.AllVectorNumbering = Put(@, V, Numbers)])
       ELSE readBack(C.S)

NumberVector(C, V) == NumberVectorBase(C, V, FindBaseValue(C.F, C.S, V, TRUE))

----------------------------------------------------------------------------
(* Local scan *)

HasBitSet(BV, Bit) == Bit \in BV

\* A variant of NoteDef that takes every definition for exposed at the end
\* of the block, whether or not a safepoint follows it.
NoteDefAlwaysExposed(St, b, Num, SafepointsSoFar) ==
    [St EXCEPT
        !.BBStates[b].Defs = @ \cup {Num},
        !.BBStates[b].UpExposedUses = @ \ {Num},
        !.BBStates[b].UpExposedUsesUnrooted = @ \ {Num},
        !.BBStates[b].DownExposedUnrooted = @ \cup {Num},
        !.LiveIfLiveOut = [k \in DOMAIN @ |->
            IF (k - 1) \in Range(SafepointsSoFar) THEN Append(@[k], Num) ELSE @[k]]]

\* A variant of NoteDef that adds the definition to the LiveIfLiveOut list
\* of every safepoint numbered so far, those of other blocks included.
NoteDefAllSafepoints(St, b, Num, SafepointsSoFar) ==
    [St EXCEPT
        !.BBStates[b].Defs = @ \cup {Num},
        !.BBStates[b].UpExposedUses = @ \ {Num},
        !.BBStates[b].UpExposedUsesUnrooted = @ \ {Num},
        !.BBStates[b].DownExposedUnrooted =
            IF ~St.BBStates[b].HasSafepoint THEN @ \cup {Num} ELSE @,
        !.LiveIfLiveOut = [k \in DOMAIN @ |-> Append(@[k], Num)]]

NoteDef(St, b, Num, SafepointsSoFar) ==
    [St EXCEPT
        !.BBStates[b].Defs = @ \cup {Num},
        !.BBStates[b].UpExposedUses = @ \ {Num},
        !.BBStates[b].UpExposedUsesUnrooted = @ \ {Num},
        !.BBStates[b].DownExposedUnrooted =
            IF ~St.BBStates[b].HasSafepoint THEN @ \cup {Num} ELSE @,
        !.LiveIfLiveOut = [k \in DOMAIN @ |->
            IF (k - 1) \in Range(SafepointsSoFar) THEN Append(@[k], Num) ELSE @[k]]]

\* LoadRefinements[Num] = RefinedPtr, when a refinement was given
\* (RefinedPtr = -2: none).
NoteRefinement(St, Num, RefinedPtr) ==
    IF RefinedPtr # -2 THEN [St EXCEPT !.LoadRefinements = Put(@, Num, RefinedPtr)] ELSE St

RECURSIVE NoteDefs(_, _, _, _, _)
NoteDefs(St, b, Nums, SafepointsSoFar, RefinedPtr) ==
    IF Nums = <<>> THEN St
    ELSE NoteDefs(NoteRefinement(NoteDef(St, b, Head(Nums), SafepointsSoFar),
                                 Head(Nums), RefinedPtr),
                  b, Tail(Nums), SafepointsSoFar, RefinedPtr)

NoteNumber(r, b, SafepointsSoFar, RefinedPtr) ==
    [r.C EXCEPT !.S = NoteDefs(r.C.S, b, <<r.Num>>, SafepointsSoFar, RefinedPtr)]

NoteNumbers(r, b, SafepointsSoFar, RefinedPtr) ==
    [r.C EXCEPT !.S = NoteDefs(r.C.S, b, r.Nums, SafepointsSoFar, RefinedPtr)]

\* A variant of MaybeNoteDef that numbers the lanes of a vector without
\* noting their definition.
MaybeNoteDefScalar(C, b, Def, SafepointsSoFar, RefinedPtr) ==
    IF isSpecialPtr(InfoOf(C.F, Def).ty) \/ isUnionRep(InfoOf(C.F, Def).ty)
    THEN NoteNumber(Number(C, Def), b, SafepointsSoFar, RefinedPtr)
    ELSE IF isSpecialPtrVec(InfoOf(C.F, Def).ty)
    THEN NumberVector(C, Def).C
    ELSE C

MaybeNoteDef(C, b, Def, SafepointsSoFar, RefinedPtr) ==
    LET RT == InfoOf(C.F, Def).ty
    IN IF isSpecialPtr(RT) \/ isUnionRep(RT)
       THEN NoteNumber(Number(C, Def), b, SafepointsSoFar, RefinedPtr)
       ELSE IF isSpecialPtrVec(RT)
       THEN NoteNumbers(NumberVector(C, Def), b, SafepointsSoFar, RefinedPtr)
       ELSE C

\* A variant of NoteSafepoint that leaves the unrooted uses out of the live
\* set of the safepoint.
NoteSafepointRootedOnly(St, b, CI) ==
    [St EXCEPT
        !.MaxSafepointNumber = @ + 1,
        !.SafepointNumbering = Put(@, CI, St.MaxSafepointNumber + 1),
        !.ReverseSafepointNumbering = Append(@, CI),
        !.BBStates[b].UpExposedUses = @ \cup St.BBStates[b].UpExposedUsesUnrooted,
        !.BBStates[b].UpExposedUsesUnrooted = {},
        !.LiveSets = Append(@, St.BBStates[b].UpExposedUses),
        !.LiveIfLiveOut = Append(@, <<>>)]

NoteSafepoint(St, b, CI) ==
    LET Num == St.MaxSafepointNumber + 1
        UE == St.BBStates[b].UpExposedUses \cup St.BBStates[b].UpExposedUsesUnrooted
    IN [St EXCEPT
        !.MaxSafepointNumber = Num,
        !.SafepointNumbering = Put(@, CI, Num),
        !.ReverseSafepointNumbering = Append(@, CI),
        !.BBStates[b].UpExposedUses = UE,
        !.BBStates[b].UpExposedUsesUnrooted = {},
        !.LiveSets = Append(@, UE),
        !.LiveIfLiveOut = Append(@, <<>>)]

\* Uses[Num] = 1, unless the value is rooted in the parent (Num < 0).
SetUse(r, b, Uses) ==
    IF r.Num = -1 THEN r.C ELSE [r.C EXCEPT !.S.BBStates[b][Uses] = @ \cup {r.Num}]

SetUses(r, b, Uses) == [r.C EXCEPT !.S.BBStates[b][Uses] = @ \cup Range(r.Nums)]

\* NoteUse(S, BBS, V, Uses): Uses names the bitset of block b.
NoteUse(C, b, V, Uses) ==
    LET d == InfoOf(C.F, V)
    IN IF d.op = "const" THEN C
       ELSE IF isSpecialPtrVec(d.ty) THEN SetUses(NumberVector(C, V), b, Uses)
       ELSE SetUse(Number(C, V), b, Uses)

\* want = "special": the operands of a special pointer type;
\* want = "union": the second operand loop of the call case;
\* want = "phi": the incoming values of a phi, b being the sequence of
\* incoming blocks whose PhiOuts receive the use.
RECURSIVE NoteOperandUsesFrom(_, _, _, _, _, _)
NoteOperandUsesFrom(C, b, ops, k, Uses, want) ==
    IF k > Len(ops) THEN C
    ELSE NoteOperandUsesFrom(
            IF (want = "special" /\ isSpecialPtr(InfoOf(C.F, ops[k]).ty))
               \/ (want = "union" /\ isUnionRep(InfoOf(C.F, ops[k]).ty))
               \/ want = "phi"
            THEN NoteUse(C, IF want = "phi" THEN b[k] ELSE b, ops[k], Uses)
            ELSE C,
            b, ops, k + 1, Uses, want)

NoteOperandUses(C, b, I, Uses) ==
    NoteOperandUsesFrom(C, b, InfoOf(C.F, I).args, 1, Uses, "special")

RECURSIVE LooksLikeFrameRef(_, _)
LooksLikeFrameRef(Fn, V) ==
    LET d == InfoOf(Fn, V)
    IN IF isSpecialPtr(d.ty) THEN FALSE
       ELSE IF d.op = "gep" THEN LooksLikeFrameRef(Fn, d.args[1])
       ELSE d.op = "arg"

NotSafepointCallees == {"julia.pointer_from_objref", "memcmp"}

\* isa<IntrinsicInst>
IsIntrinsic(callee) ==
    callee \in {"intrinsic", "llvm.lifetime.start", "llvm.lifetime.end", "llvm.memset"}

\* The end of the call case: the returns-twice note and, unless the callee
\* is known not to be a safepoint, the safepoint.
NoteCall(C, b, I) ==
    LET d == InfoOf(C.F, I)
        C4 == IF d.rt THEN [C EXCEPT !.S.ReturnsTwice = Append(@, I)] ELSE C
        St == NoteSafepoint(C4.S, b, I)
        SafepointNumber == St.MaxSafepointNumber
    IN IF d.callee \in NotSafepointCallees THEN C4
       ELSE [C4 EXCEPT !.S = [St EXCEPT
                !.BBStates[b].HasSafepoint = TRUE,
                !.BBStates[b].TopmostSafepoint = SafepointNumber,
                !.BBStates[b].Safepoints = Append(@, SafepointNumber)]]

\* The load case once the refinement is known.
ScanLoad(C, b, I, RefinedPtr) ==
    NoteOperandUses(MaybeNoteDef(C, b, I, C.S.BBStates[b].Safepoints, RefinedPtr),
                    b, I, "UpExposedUsesUnrooted")

ScanLoadImmut(r, b, I) == ScanLoad(r.C, b, I, r.Num)

\* The body of LocalScan's inner loop for instruction I of block b.
ScanInstruction(C, b, I) ==
    LET d == InfoOf(C.F, I)
        Safepoints == C.S.BBStates[b].Safepoints
    IN CASE d.op = "call" ->
            IF IsIntrinsic(d.callee) THEN C
            ELSE NoteCall(
                    NoteOperandUsesFrom(
                        NoteOperandUses(MaybeNoteDef(C, b, I, Safepoints, -2),
                                        b, I, "UpExposedUses"),
                        b, d.args, 1, "UpExposedUses", "union"),
                    b, I)
         [] d.op = "load" ->
            IF d.immut /\ isSpecialPtr(InfoOf(C.F, d.args[1]).ty)
            THEN ScanLoadImmut(Number(C, d.args[1]), b, I)
            ELSE ScanLoad(C, b, I,
                          IF isSpecialPtr(d.ty) /\ LooksLikeFrameRef(C.F, d.args[1])
                          THEN -1 ELSE -2)
         [] d.op = "select" ->
            IF ~isSpecialPtr(d.ty) THEN C
            ELSE IF d.ty # "Tracked"
            THEN IF I \in DOMAIN C.S.AllPtrNumbering THEN C ELSE LiftSelect(C, I).C
            ELSE NoteOperandUses(MaybeNoteDef(C, b, I, Safepoints, -2), b, I,
                                 "UpExposedUsesUnrooted")
         [] d.op = "phi" ->
            IF ~isSpecialPtr(d.ty) THEN C
            ELSE IF d.ty # "Tracked"
            THEN IF I \in DOMAIN C.S.AllPtrNumbering THEN C ELSE LiftPhi(C, I).C
            ELSE \* each incoming value is a use on its edge: PhiOuts of the
                 \* incoming block
                 NoteOperandUsesFrom(MaybeNoteDef(C, b, I, Safepoints, -2),
                                     d.inc, d.args, 1, "PhiOuts", "phi")
         [] d.op \in {"store", "ret"} ->
            NoteOperandUses(C, b, I, "UpExposedUsesUnrooted")
         [] d.op = "addrspacecast" ->
            IF d.ty = "Tracked" THEN MaybeNoteDef(C, b, I, Safepoints, -2) ELSE C
         [] d.op = "alloca" ->
            IF d.elt = "Tracked" THEN [C EXCEPT !.S.Allocas = Append(@, I)] ELSE C
         [] OTHER -> C

\* The name of the instruction before `cur` in block b, -1 at the start.
PrevInst(Fn, b, cur) ==
    LET is == Fn.blocks[b].insts
        k == CHOOSE j \in DOMAIN is : is[j].name = cur
    IN IF k = 1 THEN -1 ELSE is[k - 1].name

\* The reverse iteration over block b, from instruction `cur` down to the
\* first one (cur = -1: rend).  The iterator steps to whatever precedes
\* `cur` after the instruction was handled, so that an instruction a lift
\* inserted before it is visited too.
RECURSIVE ScanBlockFrom(_, _, _)
ScanBlockStep(C1, b, cur) == ScanBlockFrom(C1, b, PrevInst(C1.F, b, cur))

ScanBlockFrom(C, b, cur) ==
    IF cur = -1 THEN C ELSE ScanBlockStep(ScanInstruction(C, b, cur), b, cur)

\* The pre-seeding of the dataflow variables at the end of a block's scan.
SeedBlock(C, b) ==
    LET BBS == C.S.BBStates[b]
    IN [C EXCEPT !.S.BBStates[b] = [BBS EXCEPT
            !.LiveIn = BBS.UpExposedUses \cup BBS.UpExposedUsesUnrooted,
            !.UnrootedOut = BBS.DownExposedUnrooted,
            !.Done = TRUE]]

\* One iteration of LocalScan's loop over the blocks.
ScanBlock(C, b) ==
    LET is == C.F.blocks[b].insts
    IN SeedBlock(ScanBlockFrom(C, b, IF is = <<>> THEN -1 ELSE is[Len(is)].name), b)


----------------------------------------------------------------------------
(* Dataflow *)

\* ReversePostOrderTraversal<Function *>: a depth-first walk from the entry
\* block (block 1) over the successors in order; only the blocks reachable
\* from the entry are in it.
RECURSIVE PostOrderVisit(_, _, _), PostOrderChildren(_, _, _, _)
PostOrderChildren(Fn, succs, k, acc) ==
    IF k > Len(succs) THEN acc
    ELSE PostOrderChildren(Fn, succs, k + 1,
            IF succs[k] \in acc.visited THEN acc ELSE PostOrderVisit(Fn, succs[k], acc))
PostOrderVisit(Fn, n, acc) ==
    LET a1 == PostOrderChildren(Fn, Fn.blocks[n].succs, 1, [acc EXCEPT !.visited = @ \cup {n}])
    IN [a1 EXCEPT !.order = Append(@, n)]

RPOT(Fn) == Reverse(PostOrderVisit(Fn, 1, [order |-> <<>>, visited |-> {}]).order)

\* Variants of LivenessVisit: one that leaves the phi uses out of LiveOut,
\* one that passes UnrootedIn on through a block with a safepoint, and one
\* that leaves the unrooted uses out of the new LiveIn.
LivenessVisitNoPhiOuts(Fn, St, BB) ==
    LET BBS == St.BBStates[BB]
        NewLiveOut == UNION {St.BBStates[Succ].LiveIn : Succ \in Range(successors(Fn, BB))}
        c1 == NewLiveOut # BBS.LiveOut
        LiveOut == IF c1 THEN NewLiveOut ELSE BBS.LiveOut
        NewLiveIn == ((LiveOut \ BBS.Defs) \cup BBS.UpExposedUses) \cup BBS.UpExposedUsesUnrooted
        c2 == NewLiveIn # BBS.LiveIn
        NewUnrootedIn == UNION {St.BBStates[Pred].UnrootedOut : Pred \in Range(predecessors(Fn, BB))}
        c3 == NewUnrootedIn # BBS.UnrootedIn
    IN [S |-> [St EXCEPT !.BBStates[BB] = [BBS EXCEPT
                !.LiveOut = LiveOut,
                !.LiveIn = IF c2 THEN NewLiveIn ELSE @,
                !.UnrootedIn = IF c3 THEN NewUnrootedIn ELSE @,
                !.UnrootedOut = IF c3 /\ ~BBS.HasSafepoint THEN @ \cup NewUnrootedIn ELSE @]],
        Changed |-> c1 \/ c2 \/ c3]

LivenessVisitAlwaysFold(Fn, St, BB) ==
    LET BBS == St.BBStates[BB]
        NewLiveOut == BBS.PhiOuts \cup
                      UNION {St.BBStates[Succ].LiveIn : Succ \in Range(successors(Fn, BB))}
        c1 == NewLiveOut # BBS.LiveOut
        LiveOut == IF c1 THEN NewLiveOut ELSE BBS.LiveOut
        NewLiveIn == ((LiveOut \ BBS.Defs) \cup BBS.UpExposedUses) \cup BBS.UpExposedUsesUnrooted
        c2 == NewLiveIn # BBS.LiveIn
        NewUnrootedIn == UNION {St.BBStates[Pred].UnrootedOut : Pred \in Range(predecessors(Fn, BB))}
        c3 == NewUnrootedIn # BBS.UnrootedIn
    IN [S |-> [St EXCEPT !.BBStates[BB] = [BBS EXCEPT
                !.LiveOut = LiveOut,
                !.LiveIn = IF c2 THEN NewLiveIn ELSE @,
                !.UnrootedIn = IF c3 THEN NewUnrootedIn ELSE @,
                !.UnrootedOut = IF c3 THEN @ \cup NewUnrootedIn ELSE @]],
        Changed |-> c1 \/ c2 \/ c3]

LivenessVisitRootedOnly(Fn, St, BB) ==
    LET BBS == St.BBStates[BB]
        NewLiveOut == BBS.PhiOuts \cup
                      UNION {St.BBStates[Succ].LiveIn : Succ \in Range(successors(Fn, BB))}
        c1 == NewLiveOut # BBS.LiveOut
        LiveOut == IF c1 THEN NewLiveOut ELSE BBS.LiveOut
        NewLiveIn == (LiveOut \ BBS.Defs) \cup BBS.UpExposedUses
        c2 == NewLiveIn # BBS.LiveIn
        NewUnrootedIn == UNION {St.BBStates[Pred].UnrootedOut : Pred \in Range(predecessors(Fn, BB))}
        c3 == NewUnrootedIn # BBS.UnrootedIn
    IN [S |-> [St EXCEPT !.BBStates[BB] = [BBS EXCEPT
                !.LiveOut = LiveOut,
                !.LiveIn = IF c2 THEN NewLiveIn ELSE @,
                !.UnrootedIn = IF c3 THEN NewUnrootedIn ELSE @,
                !.UnrootedOut = IF c3 /\ ~BBS.HasSafepoint THEN @ \cup NewUnrootedIn ELSE @]],
        Changed |-> c1 \/ c2 \/ c3]

\* The body of ComputeLiveness' loop over the blocks, for block BB.
LivenessVisit(Fn, St, BB) ==
    LET BBS == St.BBStates[BB]
        NewLiveOut == BBS.PhiOuts \cup
                      UNION {St.BBStates[Succ].LiveIn : Succ \in Range(successors(Fn, BB))}
        c1 == NewLiveOut # BBS.LiveOut
        LiveOut == IF c1 THEN NewLiveOut ELSE BBS.LiveOut
        NewLiveIn == ((LiveOut \ BBS.Defs) \cup BBS.UpExposedUses) \cup BBS.UpExposedUsesUnrooted
        c2 == NewLiveIn # BBS.LiveIn
        NewUnrootedIn == UNION {St.BBStates[Pred].UnrootedOut : Pred \in Range(predecessors(Fn, BB))}
        c3 == NewUnrootedIn # BBS.UnrootedIn
    IN [S |-> [St EXCEPT !.BBStates[BB] = [BBS EXCEPT
                !.LiveOut = LiveOut,
                !.LiveIn = IF c2 THEN NewLiveIn ELSE @,
                !.UnrootedIn = IF c3 THEN NewUnrootedIn ELSE @,
                !.UnrootedOut = IF c3 /\ ~BBS.HasSafepoint THEN @ \cup NewUnrootedIn ELSE @]],
        Changed |-> c1 \/ c2 \/ c3]

----------------------------------------------------------------------------
(* Live sets and interference graph *)

SafepointBlock(Fn, St, idx) == BlockOf(Fn, St.ReverseSafepointNumbering[idx + 1])

\* A variant of LiveSetBeforeRefinement without the identifiers that are
\* live across the block.
LiveSetWithoutLiveAcross(Fn, St, idx) ==
    St.LiveSets[idx + 1]
        \cup {Live \in Range(St.LiveIfLiveOut[idx + 1]) :
                HasBitSet(St.BBStates[SafepointBlock(Fn, St, idx)].LiveOut, Live)}

\* The live set of safepoint idx before the refinements are applied.
LiveSetBeforeRefinement(Fn, St, idx) ==
    LET BBS == St.BBStates[SafepointBlock(Fn, St, idx)]
        LiveAcross == BBS.LiveIn \cap BBS.LiveOut
    IN (St.LiveSets[idx + 1] \cup LiveAcross)
         \cup {Live \in Range(St.LiveIfLiveOut[idx + 1]) : HasBitSet(BBS.LiveOut, Live)}

\* A variant of the refinement loop that drops every identifier that has a
\* refinement, whether or not what it is refined to is in the live set.
ApplyRefinementsAlways(St, LS, todo) == LS \ DOMAIN St.LoadRefinements

\* The refinement loop: the set bits of LS in ascending order, LS changed
\* in place.
RECURSIVE ApplyRefinementsFrom(_, _, _)
ApplyRefinementsFrom(St, LS, todo) ==
    IF todo = <<>> THEN LS
    ELSE LET Idx == Head(todo)
             drop == Idx \in DOMAIN St.LoadRefinements
                     /\ (St.LoadRefinements[Idx] = -1 \/ HasBitSet(LS, St.LoadRefinements[Idx]))
         IN ApplyRefinementsFrom(St, IF drop THEN LS \ {Idx} ELSE LS, Tail(todo))

\* A variant of the refinement pass that drops nothing.
ApplyNoRefinements(St, LS) == LS

ApplyRefinements(St, LS) == ApplyRefinementsFrom(St, LS, SetToSortedSeq(LS))

InterferenceGraph(St, LiveSets) ==
    [k \in 1..(St.MaxPtrNumber + 1) |->
        SetToSortedSeq(UNION {LiveSets[n] : n \in {m \in DOMAIN LiveSets : (k - 1) \in LiveSets[m]}})]

ComputeLiveSetsOf(Fn, St) ==
    LET LiveSets == [k \in DOMAIN St.LiveSets |->
                        ApplyRefinements(St, LiveSetBeforeRefinement(Fn, St, k - 1))]
    IN [St EXCEPT !.LiveSets = LiveSets, !.Neighbors = InterferenceGraph(St, LiveSets)]

----------------------------------------------------------------------------
(* Colouring *)

\* PEOIterator(Neighbors): weight and pos are kept 0-based as in the code;
\* weight -1 is (unsigned)-1, a processed element.
PEOIteratorInit(Neighbors) ==
    [Elements |-> [k \in 1..Len(Neighbors) |-> [weight |-> 0, pos |-> k - 1]],
     Levels |-> << [k \in 1..Len(Neighbors) |-> k - 1] >>]

RECURSIVE PopLevel(_)
PopLevel(L) ==
    IF L = <<>> THEN [Level |-> L, Next |-> -1]
    ELSE LET rest == SubSeq(L, 1, Len(L) - 1)
         IN IF L[Len(L)] # -1 THEN [Level |-> rest, Next |-> L[Len(L)]] ELSE PopLevel(rest)

RECURSIVE PopHighest(_)
PopHighest(Levels) ==
    IF Levels = <<>> THEN [Levels |-> Levels, Next |-> -1]
    ELSE LET r == PopLevel(Levels[Len(Levels)])
             L2 == IF r.Level = <<>> THEN SubSeq(Levels, 1, Len(Levels) - 1)
                   ELSE [Levels EXCEPT ![Len(Levels)] = r.Level]
         IN IF r.Next # -1 THEN [Levels |-> L2, Next |-> r.Next] ELSE PopHighest(L2)

\* A variant of RaiseNeighbors that leaves the neighbours where they are, so
\* that next() gives the elements in the order of the first level.
RaiseNoNeighbors(It, NextElement, ns) == It

\* A variant of RaiseNeighbors that leaves the old queue position of a
\* raised neighbour alive.
RECURSIVE RaiseNeighborsNoKill(_, _, _)
RaiseNeighborsNoKill(It, NextElement, ns) ==
    IF ns = <<>> THEN It
    ELSE LET Neighbor == Head(ns)
             NElement == It.Elements[Neighbor + 1]
             w == NElement.weight + 1
             grown == IF w >= Len(It.Levels) THEN Append(It.Levels, <<>>) ELSE It.Levels
             pushed == [grown EXCEPT ![w + 1] = Append(@, Neighbor)]
         IN IF Neighbor = NextElement \/ NElement.weight = -1
            THEN RaiseNeighborsNoKill(It, NextElement, Tail(ns))
            ELSE RaiseNeighborsNoKill(
                    [Elements |-> [It.Elements EXCEPT ![Neighbor + 1] =
                                        [weight |-> w, pos |-> Len(pushed[w + 1]) - 1]],
                     Levels |-> pushed],
                    NextElement, Tail(ns))

RECURSIVE RaiseNeighbors(_, _, _)
RaiseNeighbors(It, NextElement, ns) ==
    IF ns = <<>> THEN It
    ELSE LET Neighbor == Head(ns)
             NElement == It.Elements[Neighbor + 1]
             w == NElement.weight + 1
             killed == [It.Levels EXCEPT ![NElement.weight + 1][NElement.pos + 1] = -1]
             grown == IF w >= Len(killed) THEN Append(killed, <<>>) ELSE killed
             pushed == [grown EXCEPT ![w + 1] = Append(@, Neighbor)]
         IN IF Neighbor = NextElement \/ NElement.weight = -1
            THEN RaiseNeighbors(It, NextElement, Tail(ns))
            ELSE RaiseNeighbors(
                    [Elements |-> [It.Elements EXCEPT ![Neighbor + 1] =
                                        [weight |-> w, pos |-> Len(pushed[w + 1]) - 1]],
                     Levels |-> pushed],
                    NextElement, Tail(ns))

\* PEOIterator::next(): [It |-> the iterator after the call, Next |-> the result].
PEONext(It, Neighbors) ==
    LET p == PopHighest(It.Levels)
    IN IF p.Next = -1 THEN [It |-> [It EXCEPT !.Levels = p.Levels], Next |-> -1]
       ELSE [It |-> RaiseNeighbors(
                        [Elements |-> [It.Elements EXCEPT ![p.Next + 1].weight = -1],
                         Levels |-> p.Levels],
                        p.Next, Neighbors[p.Next + 1]),
             Next |-> p.Next]

\* A variant of PreAssign that hands out the same slot again.
RECURSIVE PreAssignShared(_, _, _)
PreAssignShared(c, LS, todo) ==
    IF todo = <<>> THEN c
    ELSE PreAssignShared(
            IF c.Colors[Head(todo) + 1] = -1
            THEN [c EXCEPT !.Colors[Head(todo) + 1] = c.PreAssignedColors,
                           !.PreAssignedColors = Max(@, 1)]
            ELSE c,
            LS, Tail(todo))

\* The first part of ColorRoots: permanent slots for what is live at a
\* returns_twice call.  Colors holds identifier i at index i + 1.
RECURSIVE PreAssign(_, _, _)
PreAssign(c, LS, todo) ==
    IF todo = <<>> THEN c
    ELSE PreAssign(
            IF c.Colors[Head(todo) + 1] = -1
            THEN [c EXCEPT !.Colors[Head(todo) + 1] = c.PreAssignedColors,
                           !.PreAssignedColors = @ + 1]
            ELSE c,
            LS, Tail(todo))

RECURSIVE PreAssignAll(_, _, _)
PreAssignAll(St, c, rts) ==
    IF rts = <<>> THEN c
    ELSE LET LS == St.LiveSets[St.SafepointNumbering[Head(rts)] + 1]
         IN PreAssignAll(St, PreAssign(c, LS, SetToSortedSeq(LS)), Tail(rts))

\* SafepointNumbering.at(it) throws std::out_of_range for a call that is
\* no safepoint.
ReturnsTwiceLookupFails(St) ==
    \E k \in DOMAIN St.ReturnsTwice : St.ReturnsTwice[k] \notin DOMAIN St.SafepointNumbering

ColorRootsInit(St) ==
    PreAssignAll(St,
        [Colors |-> [k \in 1..(St.MaxPtrNumber + 1) |-> -1],
         PreAssignedColors |-> 0, MaxAssignedColor |-> -1,
         Ordering |-> PEOIteratorInit(St.Neighbors)],
        St.ReturnsTwice)

\* A variant of GreedyColor that does not move the new colour past the
\* pre-assigned ones.
GreedyColorNoOffset(St, c, ActiveElement) ==
    LET ns == St.Neighbors[ActiveElement + 1]
        UsedColors == {c.Colors[n + 1] - c.PreAssignedColors :
                          n \in {m \in Range(ns) : c.Colors[m + 1] # -1
                                                   /\ c.Colors[m + 1] >= c.PreAssignedColors}}
        NewColor == CHOOSE x \in 0..(c.MaxAssignedColor + 1) :
                        x \notin UsedColors /\ \A y \in 0..(x - 1) : y \in UsedColors
    IN IF c.Colors[ActiveElement + 1] # -1 \/ ns = <<>> THEN c
       ELSE [c EXCEPT !.MaxAssignedColor = Max(@, NewColor),
                      !.Colors[ActiveElement + 1] = NewColor]

\* A variant of GreedyColor that colours an element without neighbours too.
GreedyColorIsolated(St, c, ActiveElement) ==
    LET ns == St.Neighbors[ActiveElement + 1]
        UsedColors == {c.Colors[n + 1] - c.PreAssignedColors :
                          n \in {m \in Range(ns) : c.Colors[m + 1] # -1
                                                   /\ c.Colors[m + 1] >= c.PreAssignedColors}}
        NewColor == CHOOSE x \in 0..(c.MaxAssignedColor + 1) :
                        x \notin UsedColors /\ \A y \in 0..(x - 1) : y \in UsedColors
    IN IF c.Colors[ActiveElement + 1] # -1 THEN c
       ELSE [c EXCEPT !.MaxAssignedColor = Max(@, NewColor),
                      !.Colors[ActiveElement + 1] = NewColor + c.PreAssignedColors]

\* The body of the greedy loop for ActiveElement.
GreedyColor(St, c, ActiveElement) ==
    LET ns == St.Neighbors[ActiveElement + 1]
        UsedColors == {c.Colors[n + 1] - c.PreAssignedColors :
                          n \in {m \in Range(ns) : c.Colors[m + 1] # -1
                                                   /\ c.Colors[m + 1] >= c.PreAssignedColors}}
        NewColor == CHOOSE x \in 0..(c.MaxAssignedColor + 1) :
                        x \notin UsedColors /\ \A y \in 0..(x - 1) : y \in UsedColors
    IN IF c.Colors[ActiveElement + 1] # -1 \/ ns = <<>> THEN c
       ELSE [c EXCEPT !.MaxAssignedColor = Max(@, NewColor),
                      !.Colors[ActiveElement + 1] = NewColor + c.PreAssignedColors]

----------------------------------------------------------------------------
(* Root placement *)

\* The pseudo-instructions the pass emits.  gcframe: the frame alloca and
\* its zeroing memset, idx = the number of slots.  gcpush / gcpop: the push
\* and pop sequences; gcpush's idx is the value stored in slot 0.
\* rootstore: the GEP to slot idx and the store of args[1] into it (lanes:
\* the lane an extractelement took out of a vector value, else 0).
GCFrameInst(name, len) == [Inst(name, "gcframe", "Generic", <<>>) EXCEPT !.idx = len]
GCPushInst(name, gcframe, NRoots) ==
    [Inst(name, "gcpush", "Void", <<gcframe>>) EXCEPT !.idx = NRoots * 2]
GCPopInst(name, gcframe) == Inst(name, "gcpop", "Void", <<gcframe>>)
RootStoreInst(name, val, lane, gcframe, slot) ==
    [Inst(name, "rootstore", "Void", <<val, gcframe>>) EXCEPT !.idx = slot, !.lanes = lane]

InsertAfter(Fn, new, after) ==
    LET b == BlockOf(Fn, after)
        is == Fn.blocks[b].insts
        k == CHOOSE j \in DOMAIN is : is[j].name = after
    IN [Fn EXCEPT !.blocks[b].insts = SubSeq(is, 1, k) \o <<new>> \o SubSeq(is, k + 1, Len(is)),
                  !.next = @ + 1]

Terminator(Fn, b) == Fn.blocks[b].insts[Len(Fn.blocks[b].insts)]

\* GetPtrForNumber: the value to store for identifier Num, and the lane of
\* it when the value is a vector (the first lane whose number is Num, the
\* vector's length when there is none).
GetPtrForNumber(Fn, St, Num) ==
    LET Val == St.ReversePtrNumbering[Num]
        AllNums == IF Val \in DOMAIN St.AllVectorNumbering
                   THEN St.AllVectorNumbering[Val] ELSE <<>>
        hits == {k \in DOMAIN AllNums : AllNums[k] = Num}
    IN IF isSpecialPtrVec(InfoOf(Fn, Val).ty)
       THEN [Val |-> Val,
             lane |-> IF hits = {} THEN Len(AllNums)
                      ELSE (CHOOSE k \in hits : \A j \in hits : k <= j) - 1]
       ELSE [Val |-> Val, lane |-> 0]

\* A variant of PlaceGCFrameStore that counts the slots of the roots from
\* the header, not from the end of the allocas.
PlaceGCFrameStoreFromHeader(Fn, St, R, MinColorRoot, Colors, GCFrame, InsertionPoint) ==
    InsertBefore(Fn, RootStoreInst(Fn.next, GetPtrForNumber(Fn, St, R).Val,
                                   GetPtrForNumber(Fn, St, R).lane, GCFrame,
                                   Colors[R + 1] + 2), InsertionPoint)

PlaceGCFrameStore(Fn, St, R, MinColorRoot, Colors, GCFrame, InsertionPoint) ==
    LET v == GetPtrForNumber(Fn, St, R)
    IN InsertBefore(Fn, RootStoreInst(Fn.next, v.Val, v.lane, GCFrame,
                                      Colors[R + 1] + MinColorRoot), InsertionPoint)

\* A variant of the walk that takes the first safepoint of a predecessor in
\* program order, and not its last.
RECURSIVE AddInPredsFirstSafepoint(_, _, _, _)
AddInPredsFirstSafepoint(Fn, St, w, preds) ==
    IF preds = <<>> THEN w
    ELSE LET Pred == Head(preds)
             SPs == St.BBStates[Pred].Safepoints
         IN AddInPredsFirstSafepoint(Fn, St,
                IF Pred \in w.Visited THEN w
                ELSE IF ~St.BBStates[Pred].HasSafepoint
                THEN [w EXCEPT !.Visited = @ \cup {Pred}, !.WorkList = Append(@, Pred)]
                ELSE IF w.First
                THEN [w EXCEPT !.Visited = @ \cup {Pred}, !.First = FALSE,
                               !.LiveIn = @ \cup St.LiveSets[SPs[Len(SPs)] + 1]]
                ELSE [w EXCEPT !.Visited = @ \cup {Pred},
                               !.LiveIn = @ \cap St.LiveSets[SPs[Len(SPs)] + 1]],
                Tail(preds))

\* The walk of AddInPredLiveOuts; w holds its locals.
RECURSIVE AddInPreds(_, _, _, _)
AddInPreds(Fn, St, w, preds) ==
    IF preds = <<>> THEN w
    ELSE LET Pred == Head(preds)
             LastSP == St.BBStates[Pred].Safepoints[1]
         IN AddInPreds(Fn, St,
                IF Pred \in w.Visited THEN w
                ELSE IF ~St.BBStates[Pred].HasSafepoint
                THEN [w EXCEPT !.Visited = @ \cup {Pred}, !.WorkList = Append(@, Pred)]
                ELSE IF w.First
                THEN [w EXCEPT !.Visited = @ \cup {Pred}, !.First = FALSE,
                               !.LiveIn = @ \cup St.LiveSets[LastSP + 1]]
                ELSE [w EXCEPT !.Visited = @ \cup {Pred},
                               !.LiveIn = @ \cap St.LiveSets[LastSP + 1]],
                Tail(preds))

RECURSIVE AddInPredLiveOutsLoop(_, _, _)
AddInPredLiveOutsLoop(Fn, St, w) ==
    IF w.WorkList = <<>> THEN w.LiveIn
    ELSE LET BB == w.WorkList[Len(w.WorkList)]
             w1 == [w EXCEPT !.WorkList = SubSeq(@, 1, Len(@) - 1)]
         IN AddInPredLiveOutsLoop(Fn, St, AddInPreds(Fn, St, w1, predecessors(Fn, BB)))

\* A variant of AddInPredLiveOuts that takes what is live into the block
\* for rooted.
AddInPredLiveOutsOfBlock(Fn, St, BB) == St.BBStates[BB].LiveIn

AddInPredLiveOuts(Fn, St, BB) ==
    AddInPredLiveOutsLoop(Fn, St,
        [First |-> TRUE, Visited |-> {}, WorkList |-> <<BB>>, LiveIn |-> {}])

\* The stores before one safepoint: the identifiers of NowLive that are not
\* in LastLive, in ascending order.
RECURSIVE PlaceStoresAt(_, _, _, _, _, _, _)
PlaceStoresAt(Fn, St, todo, MinColorRoot, Colors, GCFrame, Safepoint) ==
    IF todo = <<>> THEN Fn
    ELSE PlaceStoresAt(
            PlaceGCFrameStore(Fn, St, Head(todo), MinColorRoot, Colors, GCFrame, Safepoint),
            St, Tail(todo), MinColorRoot, Colors, GCFrame, Safepoint)

\* A variant of the loop over a block's safepoints that never moves
\* LastLive on from what was live out of the predecessors.
RECURSIVE PlaceStoresInBlockFromLiveIn(_, _, _, _, _, _, _)
PlaceStoresInBlockFromLiveIn(Fn, St, sps, LastLive, MinColorRoot, Colors, GCFrame) ==
    IF sps = <<>> THEN Fn
    ELSE PlaceStoresInBlockFromLiveIn(
            PlaceStoresAt(Fn, St,
                SetToSortedSeq({Idx \in St.LiveSets[Head(sps) + 1] : ~HasBitSet(LastLive, Idx)}),
                MinColorRoot, Colors, GCFrame, St.ReverseSafepointNumbering[Head(sps) + 1]),
            St, Tail(sps), LastLive, MinColorRoot, Colors, GCFrame)

\* The loop over a block's safepoints in program order (Safepoints holds
\* them in reverse program order).
RECURSIVE PlaceStoresInBlock(_, _, _, _, _, _, _)
PlaceStoresInBlock(Fn, St, sps, LastLive, MinColorRoot, Colors, GCFrame) ==
    IF sps = <<>> THEN Fn
    ELSE LET NowLive == St.LiveSets[Head(sps) + 1]
             Fn1 == PlaceStoresAt(Fn, St,
                        SetToSortedSeq({Idx \in NowLive : ~HasBitSet(LastLive, Idx)}),
                        MinColorRoot, Colors, GCFrame,
                        St.ReverseSafepointNumbering[Head(sps) + 1])
         IN PlaceStoresInBlock(Fn1, St, Tail(sps), NowLive, MinColorRoot, Colors, GCFrame)

RECURSIVE PlaceGCFrameStoresFrom(_, _, _, _, _, _)
PlaceGCFrameStoresFrom(Fn, St, BB, MinColorRoot, Colors, GCFrame) ==
    IF BB > Len(Fn.blocks) THEN Fn
    ELSE PlaceGCFrameStoresFrom(
            IF ~St.BBStates[BB].HasSafepoint THEN Fn
            ELSE PlaceStoresInBlock(Fn, St, Reverse(St.BBStates[BB].Safepoints),
                                    AddInPredLiveOuts(Fn, St, BB),
                                    MinColorRoot, Colors, GCFrame),
            St, BB + 1, MinColorRoot, Colors, GCFrame)

PlaceGCFrameStores(Fn, St, MinColorRoot, Colors, GCFrame) ==
    PlaceGCFrameStoresFrom(Fn, St, 1, MinColorRoot, Colors, GCFrame)

\* RecursivelyVisit<IntrinsicInst>: the lifetime markers that use V directly
\* or through GEPs, bitcasts and address-space casts.
RECURSIVE LifetimeMarkersOf(_, _)
LifetimeMarkersOf(Fn, V) ==
    LET users == {r \in AllValues(Fn) : V \in Range(r.args)}
    IN {r.name : r \in {u \in users : u.op = "call"
                            /\ u.callee \in {"llvm.lifetime.start", "llvm.lifetime.end"}}}
       \cup UNION {LifetimeMarkersOf(Fn, r.name) :
                     r \in {u \in users : u.op \in {"gep", "bitcast", "addrspacecast"}}}

EraseAll(Fn, names) ==
    [Fn EXCEPT !.blocks = [b \in DOMAIN @ |->
        [@[b] EXCEPT !.insts = SelectSeq(@, LAMBDA r : r.name \notin names)]]]

\* The loop over S.Allocas: the alloca becomes a GEP to its slot of the
\* frame, placed right after the frame; its lifetime markers go.
RECURSIVE ReplaceAllocas(_, _, _, _)
ReplaceAllocas(Fn, allocas, gcframe, AllocaSlot) ==
    IF allocas = <<>> THEN Fn
    ELSE LET AI == Head(allocas)
             gep == [Inst(AI, "gep", "Generic", <<gcframe>>) EXCEPT !.idx = AllocaSlot]
             Fn1 == EraseAll(Fn, LifetimeMarkersOf(Fn, AI) \cup {AI})
             Fn2 == [InsertAfter(Fn1, gep, gcframe) EXCEPT !.next = Fn1.next]
         IN ReplaceAllocas(Fn2, Tail(allocas), gcframe, AllocaSlot + 1)

\* A variant of PlacePops that pops at every exit, a return or not.
RECURSIVE PlacePopsAtExits(_, _, _)
PlacePopsAtExits(Fn, gcframe, b) ==
    IF b > Len(Fn.blocks) THEN Fn
    ELSE PlacePopsAtExits(
            IF Fn.blocks[b].succs = <<>>
            THEN InsertBefore(Fn, GCPopInst(Fn.next, gcframe),
                              Fn.blocks[b].insts[Len(Fn.blocks[b].insts)].name)
            ELSE Fn,
            gcframe, b + 1)

RECURSIVE PlacePops(_, _, _)
PlacePops(Fn, gcframe, b) ==
    IF b > Len(Fn.blocks) THEN Fn
    ELSE PlacePops(
            IF Terminator(Fn, b).op = "ret"
            THEN InsertBefore(Fn, GCPopInst(Fn.next, gcframe), Terminator(Fn, b).name)
            ELSE Fn,
            gcframe, b + 1)

MaxOf(s) == IF s = {} THEN -1 ELSE CHOOSE x \in s : \A y \in s : y <= x

PlaceRootsAndUpdateCalls(Fn, St, Colors, ptlsStates) ==
    LET MaxColor == MaxOf(Range(Colors) \cup {-1})
        NRoots == MaxColor + 1 + Len(St.Allocas)
        gcframe == Fn.next
        Fn1 == InsertBefore(Fn, GCFrameInst(gcframe, NRoots + 2), Fn.blocks[1].insts[1].name)
        Fn2 == InsertAfter(Fn1, GCPushInst(Fn1.next, gcframe, NRoots), ptlsStates)
        Fn3 == ReplaceAllocas(Fn2, St.Allocas, gcframe, 2)
        MinColorRoot == 2 + Len(St.Allocas)
        Fn4 == PlaceGCFrameStores(Fn3, St, MinColorRoot, Colors, gcframe)
    IN IF MaxColor # -1 \/ Len(St.Allocas) # 0
       THEN PlacePops(Fn4, gcframe, 1)
       ELSE Fn

----------------------------------------------------------------------------
(* Cleanup *)

\* doInitialization: what the module declares decides which of the pass's
\* function pointers are set; T_prjlvalue is set when the allocation
\* pseudo-intrinsic or the thread-local getter is declared.
ptls_getter(Fn) == "jl_get_ptls_states" \in Fn.module
gc_flush_func(Fn) == "julia.gcroot_flush" \in Fn.module
pointer_from_objref_func(Fn) == "julia.pointer_from_objref" \in Fn.module
alloc_obj_func(Fn) == "julia.gc_alloc_obj" \in Fn.module
T_prjlvalue(Fn) == alloc_obj_func(Fn) \/ ptls_getter(Fn)

\* A variant of CleanupCall that takes every argument of a call for a frame
\* argument, the leading function argument of the F convention too.
CleanupCallAllArgs(Fn, r, Frame, fresh) ==
    LET isF == r.cc = "JLCALL_F"
        frameargs == r.args
        nframeargs == Len(frameargs)
        stores == [k \in 1..nframeargs |->
                     [Inst(fresh + k - 1, "store", "Void", <<frameargs[k], Frame>>)
                        EXCEPT !.idx = k - 1]]
        ReplacementArgs == (IF isF THEN <<r.args[1]>> ELSE <<>>)
                              \o <<IF nframeargs = 0 THEN NullValue.name ELSE Frame>>
    IN IF gc_flush_func(Fn) /\ r.callee = "julia.gcroot_flush"
       THEN [insts |-> <<>>, nframeargs |-> 0]
       ELSE IF pointer_from_objref_func(Fn) /\ r.callee = "julia.pointer_from_objref"
       THEN [insts |-> <<Inst(r.name, "ptrtoint", "Int", <<r.args[1]>>)>>, nframeargs |-> 0]
       ELSE IF alloc_obj_func(Fn) /\ r.callee = "julia.gc_alloc_obj"
       THEN [insts |-> << [r EXCEPT !.callee = IF r.idx < 0 THEN "jl_gc_big_alloc"
                                                ELSE "jl_gc_pool_alloc",
                                    !.args = <<r.args[1]>>],
                          Inst(fresh, "store", "Void", <<r.args[3], r.name>>) >>,
             nframeargs |-> 0]
       ELSE IF r.cc \in {"JLCALL", "JLCALL_F"}
       THEN [insts |-> stores \o << [r EXCEPT !.cc = "C", !.args = ReplacementArgs,
                                              !.idx = nframeargs] >>,
             nframeargs |-> nframeargs]
       ELSE [insts |-> <<r>>, nframeargs |-> 0]

\* What replaces call r (the replacement keeps r's name: every use of r is
\* redirected to it).  Fresh names start at `fresh`.
\*  - the GC-flush marker is erased;
\*  - pointer_from_objref becomes a ptrtoint of its operand;
\*  - the allocation pseudo-intrinsic (operands ptls, size, tag; idx: the
\*    pool offset jl_gc_classify_pools gives for the size, negative for a
\*    big object) becomes a pool or big allocation and a store of the tag;
\*  - a call with a variadic-pointer calling convention becomes the stores
\*    of its frame arguments and a call taking (frame or null, count);
\*  - any other call is re-created without operand bundles: the test
\*    getNumArgOperands() == getNumOperands() never holds, the called value
\*    being an operand too.
CleanupCall(Fn, r, Frame, fresh) ==
    LET isF == r.cc = "JLCALL_F"
        frameargs == IF isF THEN Tail(r.args) ELSE r.args
        nframeargs == Len(frameargs)
        stores == [k \in 1..nframeargs |->
                     [Inst(fresh + k - 1, "store", "Void", <<frameargs[k], Frame>>)
                        EXCEPT !.idx = k - 1]]
        ReplacementArgs == (IF isF THEN <<r.args[1]>> ELSE <<>>)
                              \o <<IF nframeargs = 0 THEN NullValue.name ELSE Frame>>
    IN IF gc_flush_func(Fn) /\ r.callee = "julia.gcroot_flush"
       THEN [insts |-> <<>>, nframeargs |-> 0]
       ELSE IF pointer_from_objref_func(Fn) /\ r.callee = "julia.pointer_from_objref"
       THEN [insts |-> <<Inst(r.name, "ptrtoint", "Int", <<r.args[1]>>)>>, nframeargs |-> 0]
       ELSE IF alloc_obj_func(Fn) /\ r.callee = "julia.gc_alloc_obj"
       THEN [insts |-> << [r EXCEPT !.callee = IF r.idx < 0 THEN "jl_gc_big_alloc"
                                                ELSE "jl_gc_pool_alloc",
                                    !.args = <<r.args[1]>>],
                          Inst(fresh, "store", "Void", <<r.args[3], r.name>>) >>,
             nframeargs |-> 0]
       ELSE IF r.cc \in {"JLCALL", "JLCALL_F"}
       THEN [insts |-> stores \o << [r EXCEPT !.cc = "C", !.args = ReplacementArgs,
                                              !.idx = nframeargs] >>,
             nframeargs |-> nframeargs]
       ELSE [insts |-> <<r>>, nframeargs |-> 0]

\* The loops of CleanupIR over block b from position k on; st holds the IR,
\* maxframeargs and ChangesMade.
RECURSIVE CleanupFrom(_, _, _, _)
CleanupFrom(st, Frame, b, k) ==
    IF b > Len(st.F.blocks) THEN st
    ELSE IF k > Len(st.F.blocks[b].insts) THEN CleanupFrom(st, Frame, b + 1, 1)
    ELSE LET is == st.F.blocks[b].insts
             r == is[k]
             c == CleanupCall(st.F, r, Frame, st.F.next)
         IN IF r.op # "call" THEN CleanupFrom(st, Frame, b, k + 1)
            ELSE CleanupFrom(
                    [F |-> [st.F EXCEPT
                              !.blocks[b].insts = SubSeq(is, 1, k - 1) \o c.insts
                                                    \o SubSeq(is, k + 1, Len(is)),
                              !.next = @ + Len(c.insts)],
                     maxframeargs |-> Max(st.maxframeargs, c.nframeargs),
                     ChangesMade |-> TRUE],
                    Frame, b, k + Len(c.insts))

\* CleanupIR: [F |-> the function after it, ChangesMade |-> its result].
CleanupIR(Fn) ==
    LET Frame == Fn.next
        Fn1 == IF T_prjlvalue(Fn)
               THEN InsertBefore(Fn, [Inst(Frame, "alloca", "Generic", <<>>)
                                        EXCEPT !.elt = "jlcallframe", !.idx = 0],
                                 Fn.blocks[1].insts[1].name)
               ELSE Fn
        st == CleanupFrom([F |-> Fn1, maxframeargs |-> 0, ChangesMade |-> FALSE], Frame, 1, 1)
        Fn2 == IF ~T_prjlvalue(Fn) THEN st.F
               ELSE IF st.maxframeargs = 0 THEN EraseAll(st.F, {Frame})
               ELSE [st.F EXCEPT !.blocks[1].insts =
                        [k \in DOMAIN @ |-> IF @[k].name = Frame
                                            THEN [@[k] EXCEPT !.idx = st.maxframeargs]
                                            ELSE @[k]]]
    IN [F |-> Fn2, ChangesMade |-> st.ChangesMade]

----------------------------------------------------------------------------
(* The input functions.  Block 1 is the entry block; value 1 is a global    *)
(* (a constant pointer in the generic address space) the loads read from,   *)
(* value 2 the call of the thread-local getter.                             *)

GraphIds == 4

Global(name) == Inst(name, "const", "Generic", <<>>)

GetPtls(name) == CallTo(name, "jl_get_ptls_states", "Generic", <<>>)

StdModule == {"jl_get_ptls_states"}

Function(params, blocks, module) ==
    [params |-> params, blocks |-> blocks, module |-> module,
     next |-> 1 + MaxOf({r.name : r \in Range(params) \cup
                           UNION {Range(blocks[b].insts) : b \in DOMAIN blocks}})]

TermFor(name, succs) == IF succs = <<>> THEN Ret(name, <<>>) ELSE Br(name)

\* --- every control-flow graph on three blocks, one tracked value ---------
SuccChoices == {<<>>, <<2>>, <<3>>, <<2, 3>>}

CfgBodies == {"none", "sp", "use", "sp_use", "use_sp", "def"}

CfgBody(kind, b) ==
    LET sp == Call(10 * b + 1, "Void", <<>>)
        use == Store(10 * b + 2, 3, 1)
    IN CASE kind = "none" -> <<>>
         [] kind = "def" -> <<Load(10 * b + 3, "Tracked", 1)>>
         [] kind = "sp" -> <<sp>>
         [] kind = "use" -> <<use>>
         [] kind = "sp_use" -> <<sp, use>>
         [] kind = "use_sp" -> <<use, sp>>

CfgFunction(defFirst, body, succ) ==
    Function(<<Global(1)>>,
        [b \in 1..3 |->
            Block((IF b = 1
                   THEN (IF defFirst THEN <<Load(3, "Tracked", 1), GetPtls(2)>>
                         ELSE <<GetPtls(2), Load(3, "Tracked", 1)>>)
                   ELSE CfgBody(body[b], b))
                  \o <<TermFor(10 * b + 9, succ[b])>>,
                  succ[b])],
        StdModule)

CfgFamily ==
    {CfgFunction(d, body, succ) :
        d \in BOOLEAN, body \in [2..3 -> CfgBodies], succ \in [1..3 -> SuccChoices]}

\* --- every interference graph on GraphIds values -------------------------
\* The entry block defines the values; one leaf block per chosen edge holds
\* a call taking the two ends of the edge, so that exactly they are live at
\* it.  rt: the leaves whose call may return twice.
RECURSIVE PairsFrom(_, _, _)
PairsFrom(i, k, n) ==
    IF i >= n THEN <<>>
    ELSE IF k > n THEN PairsFrom(i + 1, i + 2, n)
    ELSE <<<<i, k>>>> \o PairsFrom(i, k + 1, n)

AllPairs(n) == PairsFrom(1, 2, n)

GraphFunction(n, chosen, rt) ==
    LET pairs == AllPairs(n)
        edges == [j \in 1..Cardinality(chosen) |-> pairs[SetToSortedSeq(chosen)[j]]]
        L == Len(edges)
        val(i) == 2 + i
        leaf(j) == Block(<< [Call(100 + j, "Void", <<val(edges[j][1]), val(edges[j][2])>>)
                               EXCEPT !.rt = (j \in rt)],
                            Ret(200 + j, <<>>) >>, <<>>)
        entry == Block(<<GetPtls(2)>> \o [i \in 1..n |-> Load(val(i), "Tracked", 1)]
                         \o <<TermFor(99, [j \in 1..L |-> j + 1])>>,
                       [j \in 1..L |-> j + 1])
    IN Function(<<Global(1)>>, <<entry>> \o [j \in 1..L |-> leaf(j)], StdModule)

GraphFamily ==
    {GraphFunction(GraphIds, chosen, rt) :
        chosen \in SUBSET (1..Len(AllPairs(GraphIds))), rt \in SUBSET {1, 2}}

\* --- loads from immutable objects: the chain r <- f <- g -----------------
\* r (3) is a plain load, or a load from the argument array (value 6); f (4)
\* is an immutable load from r and g (5) one from f.  `used` are the values
\* stored to after the safepoint; the layouts differ in the order in which
\* the scan numbers the three values.
UseStores(b, used, rev) ==
    LET vs == IF rev THEN Reverse(SetToSortedSeq(used)) ELSE SetToSortedSeq(used)
    IN [k \in DOMAIN vs |-> Store(10 * b + k, vs[k], 1)]

ChainDefs(frameRef) ==
    << Load(3, "Tracked", IF frameRef THEN 6 ELSE 1),
       LoadImmut(4, "Tracked", 3),
       LoadImmut(5, "Tracked", 4) >>

RefineFunction(layout, frameRef, used, rev) ==
    LET sp(b) == Call(10 * b + 7, "Void", <<>>)
        blocks ==
          CASE layout = "one" ->
                << Block(<<GetPtls(2)>> \o ChainDefs(frameRef) \o <<Br(19)>>, <<2>>),
                   Block(<<sp(2), Br(29)>>, <<3>>),
                   Block(UseStores(3, used, rev) \o <<Ret(39, <<>>)>>, <<>>) >>
            [] layout = "split" ->
                << Block(<<GetPtls(2), ChainDefs(frameRef)[1], Br(19)>>, <<2>>),
                   Block(SubSeq(ChainDefs(frameRef), 2, 3) \o <<sp(2)>>
                            \o UseStores(2, used, rev) \o <<Ret(29, <<>>)>>, <<>>) >>
            [] layout = "uses_first" ->
                << Block(<<GetPtls(2), Br(19)>>, <<3>>),
                   Block(<<sp(2)>> \o UseStores(2, used, rev) \o <<Ret(29, <<>>)>>, <<>>),
                   Block(ChainDefs(frameRef) \o <<Br(39)>>, <<2>>) >>
    IN Function(<<Global(1), Arg(6, "Generic")>>, blocks, StdModule)

RefineFamily ==
    {RefineFunction(layout, frameRef, used, rev) :
        layout \in {"one", "split", "uses_first"}, frameRef \in BOOLEAN,
        used \in SUBSET {3, 4, 5}, rev \in BOOLEAN}

\* --- phi nodes ------------------------------------------------------------
\* A diamond joining two loads, and a loop carrying a value around its back
\* edge; sp2, sp3: a safepoint in the arm; useA: the first load is also used
\* after the join.
DiamondFunction(sp2, sp3, useA) ==
    Function(<<Global(1)>>,
        << Block(<<GetPtls(2), Load(3, "Tracked", 1), Br(19)>>, <<2, 3>>),
           Block(<<Load(21, "Tracked", 1)>>
                    \o (IF sp2 THEN <<Call(22, "Void", <<>>)>> ELSE <<>>) \o <<Br(29)>>, <<4>>),
           Block((IF sp3 THEN <<Call(32, "Void", <<>>)>> ELSE <<>>) \o <<Br(39)>>, <<4>>),
           Block(<<Phi(41, "Tracked", <<21, 3>>, <<2, 3>>), Call(42, "Void", <<>>),
                   Store(43, 41, 1)>>
                    \o (IF useA THEN <<Store(44, 3, 1)>> ELSE <<>>) \o <<Ret(49, <<>>)>>, <<>>) >>,
        StdModule)

LoopFunction(spBefore, useP) ==
    Function(<<Global(1)>>,
        << Block(<<GetPtls(2), Load(3, "Tracked", 1), Br(19)>>, <<2>>),
           Block(<<Phi(21, "Tracked", <<3, 23>>, <<1, 2>>)>>
                    \o (IF spBefore THEN <<Call(22, "Void", <<>>)>> ELSE <<>>)
                    \o <<Load(23, "Tracked", 1)>>
                    \o (IF spBefore THEN <<>> ELSE <<Call(22, "Void", <<>>)>>)
                    \o (IF useP THEN <<Store(24, 21, 1)>> ELSE <<>>) \o <<Br(29)>>, <<2, 3>>),
           Block(<<Store(31, 23, 1), Ret(39, <<>>)>>, <<>>) >>,
        StdModule)

PhiFamily ==
    {DiamondFunction(sp2, sp3, useA) : sp2 \in BOOLEAN, sp3 \in BOOLEAN, useA \in BOOLEAN}
    \cup {LoopFunction(spBefore, useP) : spBefore \in BOOLEAN, useP \in BOOLEAN}

\* --- numbering: a base value, its chain of casts, and uses in any order ---
\* Value 3 is the base: a load, a call, a cast from the untracked space, a
\* call that returns a union, or a select of two decayed loads (a select the
\* pass lifts).  4, 5 and 6 are a chain above it: a bitcast (an extractvalue
\* of the union), a cast to a space of derived pointers, a GEP.
Cast(name, op, ty, from) == Inst(name, op, ty, <<from>>)

ChainRoots == {"load", "call", "cast", "union", "select"}

ChainBase(root) ==
    CASE root = "load" -> <<Load(3, "Tracked", 1)>>
      [] root = "call" -> <<Call(3, "Tracked", <<>>)>>
      [] root = "cast" -> <<Cast(3, "addrspacecast", "Tracked", 1)>>
      [] root = "union" -> <<Call(3, "Union", <<>>)>>
      [] root = "select" ->
            << Load(7, "Tracked", 1), Cast(71, "addrspacecast", "Derived", 7),
               Load(8, "Tracked", 1), Cast(81, "bitcast", "Tracked", 8),
               Cast(82, "addrspacecast", "Derived", 81),
               Inst(3, "select", "Derived", <<71, 82>>) >>

ChainLinks(root) ==
    IF root = "select"
    THEN << Cast(4, "bitcast", "Derived", 3), Cast(5, "addrspacecast", "CalleeRooted", 4),
            Cast(6, "gep", "CalleeRooted", 5) >>
    ELSE << Cast(4, IF root = "union" THEN "extractvalue" ELSE "bitcast", "Tracked", 3),
            Cast(5, "addrspacecast", "Derived", 4), Cast(6, "gep", "Derived", 5) >>

\* The sequences without repetition over X.
RECURSIVE Arrangements(_)
Arrangements(X) ==
    {<<>>} \cup UNION {{<<x>> \o s : s \in Arrangements(X \ {x})} : x \in X}

\* uses: the values stored (the union: passed to a call that is no
\* safepoint), in program order (the scan meets them last to first); apart: the uses are in a block of their own, which is scanned
\* after the block of the definitions.
ChainFunction(root, uses, apart) ==
    LET defs == <<GetPtls(2)>> \o ChainBase(root) \o ChainLinks(root)
                    \o <<Call(11, "Void", <<>>)>>
        stores == [k \in DOMAIN uses |->
                     IF root = "union" /\ uses[k] = 3
                     THEN CallTo(20 + k, "memcmp", "Int", <<3>>)
                     ELSE Store(20 + k, uses[k], 1)]
    IN Function(<<Global(1)>>,
            IF apart
            THEN << Block(defs \o <<Br(19)>>, <<2>>),
                    Block(stores \o <<Call(28, "Void", <<>>), Ret(29, <<>>)>>, <<>>) >>
            ELSE << Block(defs \o stores \o <<Call(28, "Void", <<>>), Ret(29, <<>>)>>, <<>>) >>,
            StdModule)

\* A phi of two decayed loads (a phi the pass lifts) at a join, used
\* through a cast; the uses are at the join.
LiftedPhiFunction(uses) ==
    LET stores == [k \in DOMAIN uses |-> Store(50 + k, uses[k], 1)]
        join == << Phi(3, "Derived", <<71, 82>>, <<1, 2>>), Cast(4, "bitcast", "Derived", 3),
                   Call(41, "Void", <<>>) >>
    IN Function(<<Global(1)>>,
            << Block(<<GetPtls(2), Load(7, "Tracked", 1),
                       Cast(71, "addrspacecast", "Derived", 7), Br(19)>>, <<3, 2>>),
               Block(<<Load(8, "Tracked", 1), Cast(81, "bitcast", "Tracked", 8),
                       Cast(82, "addrspacecast", "Derived", 81), Br(29)>>, <<3>>),
               Block(join \o stores \o <<Ret(39, <<>>)>>, <<>>) >>,
            StdModule)

\* A load of a vector of two tracked pointers, live across a safepoint.
VectorFunction ==
    Function(<<Global(1)>>,
        << Block(<<GetPtls(2), [Load(3, "TrackedVec", 1) EXCEPT !.lanes = 2],
                   Call(11, "Void", <<>>), Store(12, 3, 1), Ret(19, <<>>)>>, <<>>) >>,
        StdModule)

NumberingFamily ==
    {ChainFunction(root, uses, apart) :
        root \in ChainRoots, uses \in Arrangements({3, 4, 5, 6}), apart \in BOOLEAN}
    \cup {LiftedPhiFunction(uses) : uses \in Arrangements({3, 4})}
    \cup {VectorFunction}

\* --- two safepoints one after the other in a block -----------------------
\* Values 3, 4 and 5 are loads; def[v] says before which of the two calls
\* (11, 12) v is loaded, use[v] after which of them it is stored (0: before
\* any call that follows its load), so that v is live at call j exactly when
\* def[v] <= j <= use[v].
LoadsOf(vs) == [k \in DOMAIN SetToSortedSeq(vs) |-> Load(SetToSortedSeq(vs)[k], "Tracked", 1)]

StoresOf(vs) == [k \in DOMAIN SetToSortedSeq(vs) |-> Store(30 + SetToSortedSeq(vs)[k],
                                                           SetToSortedSeq(vs)[k], 1)]

SequenceFunction(def, use) ==
    Function(<<Global(1)>>,
        << Block(<<GetPtls(2)>>
                    \o LoadsOf({v \in DOMAIN def : def[v] = 1})
                    \o StoresOf({v \in DOMAIN def : def[v] = 1 /\ use[v] = 0})
                    \o <<Call(11, "Void", <<>>)>>
                    \o LoadsOf({v \in DOMAIN def : def[v] = 2})
                    \o StoresOf({v \in DOMAIN def : (def[v] = 2 /\ use[v] = 0) \/ use[v] = 1})
                    \o <<Call(12, "Void", <<>>)>>
                    \o StoresOf({v \in DOMAIN def : use[v] = 2})
                    \o <<Ret(19, <<>>)>>, <<>>) >>,
        StdModule)

SequenceFamily ==
    {SequenceFunction(def, use) : def \in [3..5 -> 1..2], use \in [3..5 -> 0..2]}

\* --- the remaining paths of runOnFunction ---------------------------------
\* A function of a module that does not declare the getter; one that
\* declares it without calling it in the entry block; one with a
\* returns_twice call of memcmp, which is no safepoint; one with allocas of
\* tracked pointers and an exit by `unreachable`; one without any call; one
\* whose last safepoint in the entry block is a call that returns a value.
MiscFunction(kind) ==
    CASE kind = "no_getter" ->
            Function(<<Global(1)>>,
                << Block(<<Load(3, "Tracked", 1), Call(11, "Void", <<3>>), Ret(19, <<>>)>>, <<>>) >>,
                {})
      [] kind = "no_call" ->
            Function(<<Global(1)>>,
                << Block(<<Load(3, "Tracked", 1), Br(19)>>, <<2>>),
                   Block(<<GetPtls(2), Call(21, "Void", <<3>>), Ret(29, <<>>)>>, <<>>) >>,
                StdModule)
      [] kind = "memcmp" ->
            Function(<<Global(1)>>,
                << Block(<<GetPtls(2), Load(3, "Tracked", 1),
                           [CallTo(11, "memcmp", "Int", <<3>>) EXCEPT !.rt = TRUE],
                           Call(12, "Void", <<3>>), Ret(19, <<>>)>>, <<>>) >>,
                StdModule)
      [] kind = "alloca" ->
            Function(<<Global(1)>>,
                << Block(<<GetPtls(2), Alloca(3, "Tracked"), Alloca(4, "Tracked"),
                           CallTo(5, "llvm.lifetime.start", "Void", <<3>>),
                           Load(6, "Tracked", 1), Br(19)>>, <<2, 3>>),
                   Block(<<Call(21, "Void", <<4>>), Store(22, 6, 3), Ret(29, <<>>)>>, <<>>),
                   Block(<<Call(31, "Void", <<6>>), Unreachable(39)>>, <<>>) >>,
                StdModule)
      [] kind = "no_getter_alloca" ->
            Function(<<Global(1)>>,
                << Block(<<Alloca(3, "Tracked"), Load(4, "Tracked", 1), Store(5, 4, 3),
                           CallTo(6, "memcmp", "Int", <<4>>), Ret(19, <<>>)>>, <<>>) >>,
                {})
      [] kind = "alloca_roots" ->
            Function(<<Global(1)>>,
                << Block(<<GetPtls(2), Alloca(3, "Tracked"), Alloca(4, "Tracked"),
                           Load(5, "Tracked", 1), Load(6, "Tracked", 1),
                           Call(11, "Void", <<5, 6>>), Store(12, 5, 3), Store(13, 6, 4),
                           Ret(19, <<>>)>>, <<>>) >>,
                StdModule)
      [] kind = "no_calls" ->
            Function(<<Global(1)>>,
                << Block(<<Load(3, "Tracked", 1), Store(4, 3, 1), Ret(19, <<>>)>>, <<>>) >>,
                StdModule)
      [] kind = "last_call" ->
            Function(<<Global(1)>>,
                << Block(<<GetPtls(2), Load(3, "Tracked", 1), Call(4, "Tracked", <<3>>),
                           Store(5, 4, 1), Br(19)>>, <<2>>),
                   Block(<<Call(21, "Void", <<>>), Store(22, 4, 1), Ret(29, <<>>)>>, <<>>) >>,
                StdModule)
      [] kind = "alloca_only" ->
            Function(<<Global(1)>>,
                << Block(<<GetPtls(2), Alloca(3, "Tracked"), Br(19)>>, <<2, 3>>),
                   Block(<<Ret(29, <<>>)>>, <<>>),
                   Block(<<Unreachable(39)>>, <<>>) >>,
                StdModule)

MiscFamily ==
    {MiscFunction(kind) : kind \in {"no_getter", "no_call", "memcmp", "alloca", "alloca_only",
                                   "no_getter_alloca", "alloca_roots", "no_calls", "last_call"}}

\* --- calls with the variadic-pointer conventions and pseudo-intrinsics -----
\* Values 3, 4 and 5 are loads.  Call 11 has the JLCALL convention and takes
\* the first n1 of them; call 21, in the next block, takes the first n2 and
\* has the JLCALL_F convention when isF (its first argument is then the
\* function).  pseudo: which of the GC-flush marker (13), pointer_from_objref
\* (14) and the allocation pseudo-intrinsic (15) are called.  getter: the
\* function calls the thread-local getter.
JlModule ==
    StdModule \cup {"julia.gcroot_flush", "julia.pointer_from_objref", "julia.gc_alloc_obj"}

JlCall(name, cc, args) == [Call(name, "Tracked", args) EXCEPT !.cc = cc]

JlcallFunction(getter, n1, isF, n2, pseudo) ==
    LET vals == <<3, 4, 5>>
        flush == IF "flush" \in pseudo
                 THEN <<CallTo(13, "julia.gcroot_flush", "Void", <<>>)>> ELSE <<>>
        objref == IF "objref" \in pseudo
                  THEN <<CallTo(14, "julia.pointer_from_objref", "Int", <<3>>)>> ELSE <<>>
        alloc == IF "alloc" \in pseudo
                 THEN <<[CallTo(15, "julia.gc_alloc_obj", "Tracked",
                                <<IF getter THEN 2 ELSE 1, 1, 3>>) EXCEPT !.idx = 8]>>
                 ELSE <<>>
    IN Function(<<Global(1)>>,
            << Block((IF getter THEN <<GetPtls(2)>> ELSE <<>>)
                        \o <<Load(3, "Tracked", 1), Load(4, "Tracked", 1), Load(5, "Tracked", 1)>>
                        \o flush \o objref \o alloc
                        \o <<JlCall(11, "JLCALL", SubSeq(vals, 1, n1)), Br(19)>>, <<2>>),
               Block(<<JlCall(21, IF isF THEN "JLCALL_F" ELSE "JLCALL", SubSeq(vals, 1, n2)),
                       Store(22, 21, 1), Ret(29, <<>>)>>, <<>>) >>,
            JlModule)

JlcallFamily ==
    {JlcallFunction(getter, n1, isF, n2, pseudo) :
        getter \in BOOLEAN, n1 \in 0..2, isF \in BOOLEAN, n2 \in 1..3,
        pseudo \in {{}, {"flush"}, {"objref"}, {"alloc"}, {"flush", "objref", "alloc"}}}
    \cup {JlcallFunction(getter, n1, FALSE, 0, {}) : getter \in BOOLEAN, n1 \in 0..2}

Functions ==
    CfgFamily \cup GraphFamily \cup RefineFamily \cup PhiFamily \cup MiscFamily
    \cup NumberingFamily \cup SequenceFamily

----------------------------------------------------------------------------
(* runOnFunction *)

NoColors == [Colors |-> <<>>, PreAssignedColors |-> 0, MaxAssignedColor |-> -1,
             Ordering |-> [Elements |-> <<>>, Levels |-> <<>>]]

InitFrom(Fs) ==
    /\ F \in Fs
    /\ S = EmptyState(F)
    /\ pc = "runOnFunction"
    /\ scanBB = 1
    /\ rpoPos = 1
    /\ AnyChanged = FALSE
    /\ CR = NoColors
    /\ Out = [ptlsStates |-> -1, ret |-> FALSE]

Init == InitFrom(Functions)

\* A variant of FindPtlsStates that takes the first instruction of the entry
\* block for the getter's call when there is none.
FindPtlsStatesOrFirst(Fn) ==
    LET is == Fn.blocks[1].insts
        hits == {k \in DOMAIN is : is[k].op = "call" /\ is[k].callee = "jl_get_ptls_states"}
    IN IF hits = {} THEN is[1].name
       ELSE is[CHOOSE k \in hits : \A j \in hits : k <= j].name

\* The first call of the thread-local getter in the entry block, -1 if none.
FindPtlsStates(Fn) ==
    LET is == Fn.blocks[1].insts
        hits == {k \in DOMAIN is : is[k].op = "call" /\ is[k].callee = "jl_get_ptls_states"}
    IN IF ~ptls_getter(Fn) \/ hits = {} THEN -1
       ELSE is[CHOOSE k \in hits : \A j \in hits : k <= j].name

\* runOnFunction up to the call of LocalScan, or to the CleanupIR that is
\* all there is to do when the function does not use the getter.
RunOnFunction ==
    /\ pc = "runOnFunction"
    /\ Out' = [Out EXCEPT !.ptlsStates = FindPtlsStates(F)]
    /\ pc' = IF FindPtlsStates(F) = -1 THEN "CleanupOnly" ELSE "LocalScan"
    /\ UNCHANGED <<F, S, scanBB, rpoPos, AnyChanged, CR>>

\* A variant of the cleanup-only return that reports a change always, as
\* the return of the full path does.
CleanupOnlyReturnsTrue ==
    /\ pc = "CleanupOnly"
    /\ F' = CleanupIR(F).F
    /\ Out' = [Out EXCEPT !.ret = TRUE]
    /\ pc' = "done"
    /\ UNCHANGED <<S, scanBB, rpoPos, AnyChanged, CR>>

CleanupOnly ==
    /\ pc = "CleanupOnly"
    /\ F' = CleanupIR(F).F
    /\ Out' = [Out EXCEPT !.ret = CleanupIR(F).ChangesMade]
    /\ pc' = "done"
    /\ UNCHANGED <<S, scanBB, rpoPos, AnyChanged, CR>>

LocalScanBlock ==
    /\ pc = "LocalScan"
    /\ \E C \in {ScanBlock([F |-> F, S |-> S], scanBB)} :
          /\ F' = C.F
          /\ S' = C.S
    /\ scanBB' = scanBB + 1
    /\ pc' = IF scanBB = Len(F.blocks) THEN "ComputeLiveness" ELSE "LocalScan"
    /\ UNCHANGED <<rpoPos, AnyChanged, CR, Out>>

LivenessStep ==
    /\ pc = "ComputeLiveness"
    /\ rpoPos <= Len(RPOT(F))
    /\ \E r \in {LivenessVisit(F, S, RPOT(F)[rpoPos])} :
          /\ S' = r.S
          /\ AnyChanged' = (AnyChanged \/ r.Changed)
    /\ rpoPos' = rpoPos + 1
    /\ UNCHANGED <<F, pc, scanBB, CR, Out>>

\* The end of a pass over the blocks: Converged = !AnyChanged.
LivenessPassEnd ==
    /\ pc = "ComputeLiveness"
    /\ rpoPos > Len(RPOT(F))
    /\ pc' = IF AnyChanged THEN "ComputeLiveness" ELSE "ComputeLiveSets"
    /\ rpoPos' = 1
    /\ AnyChanged' = FALSE
    /\ UNCHANGED <<F, S, scanBB, CR, Out>>

\* --- the iteration order of S.SafepointNumbering ---------------------------
\* SafepointNumbering is a std::map keyed by the address of the call, so a
\* range-for over it gives the safepoints in the order of their addresses:
\* any order.  Up to PermutedSafepoints safepoints every order is drawn,
\* above that the rotations of the ascending and of the descending order.
PermutedSafepoints == 4

Rotations(s) == {SubSeq(s, k, Len(s)) \o SubSeq(s, 1, k - 1) : k \in 1..Len(s)}

MapOrders(St) ==
    IF St.MaxSafepointNumber + 1 <= PermutedSafepoints
    THEN {s \in Arrangements(0..St.MaxSafepointNumber) : Len(s) = St.MaxSafepointNumber + 1}
    ELSE Rotations(SetToSortedSeq(0..St.MaxSafepointNumber))
            \cup Rotations(Reverse(SetToSortedSeq(0..St.MaxSafepointNumber)))

\* The first loop of ComputeLiveSets over the safepoints in the order given:
\* S.LiveSets[idx] is changed in place.
RECURSIVE LiveSetsInOrder(_, _, _)
LiveSetsInOrder(Fn, St, order) ==
    IF order = <<>> THEN St
    ELSE LiveSetsInOrder(Fn,
            [St EXCEPT !.LiveSets[Head(order) + 1] =
                ApplyRefinements(St, LiveSetBeforeRefinement(Fn, St, Head(order)))],
            Tail(order))

\* A variant of NeighborBits that leaves the identifier itself out.
RECURSIVE NeighborBitsOfOthers(_, _, _, _)
NeighborBitsOfOthers(St, i, order, NeighborBits) ==
    IF order = <<>> THEN NeighborBits
    ELSE NeighborBitsOfOthers(St, i, Tail(order),
            IF i \in St.LiveSets[Head(order) + 1]
            THEN NeighborBits \cup (St.LiveSets[Head(order) + 1] \ {i})
            ELSE NeighborBits)

\* NeighborBits of identifier i: the live sets that hold i, or-ed in the
\* order given.
RECURSIVE NeighborBitsInOrder(_, _, _, _)
NeighborBitsInOrder(St, i, order, NeighborBits) ==
    IF order = <<>> THEN NeighborBits
    ELSE NeighborBitsInOrder(St, i, Tail(order),
            IF i \in St.LiveSets[Head(order) + 1]
            THEN NeighborBits \cup St.LiveSets[Head(order) + 1]
            ELSE NeighborBits)

\* A variant of the neighbour list that takes the neighbours as the
\* iteration meets them, and not from the set bits of NeighborBits.
RECURSIVE NeighborsAsMet(_, _, _)
NeighborsAsMet(St, i, order) ==
    IF order = <<>> THEN <<>>
    ELSE IF i \in St.LiveSets[Head(order) + 1]
    THEN SetToSortedSeq(St.LiveSets[Head(order) + 1])
            \o SelectSeq(NeighborsAsMet(St, i, Tail(order)),
                         LAMBDA x : x \notin St.LiveSets[Head(order) + 1])
    ELSE NeighborsAsMet(St, i, Tail(order))

\* The Neighbors of identifier i: the set bits of NeighborBits, ascending.
NeighborsInOrder(St, i, order) == SetToSortedSeq(NeighborBitsInOrder(St, i, order, {}))

\* The second loop of ComputeLiveSets, on the State the first has left.
InterferenceGraphInOrder(St, order) ==
    [St EXCEPT !.Neighbors = [k \in 1..(St.MaxPtrNumber + 1) |-> NeighborsInOrder(St, k - 1, order)]]

ComputeLiveSetsInOrder(Fn, St, order) ==
    InterferenceGraphInOrder(LiveSetsInOrder(Fn, St, order), order)

ComputeLiveSets ==
    /\ pc = "ComputeLiveSets"
    /\ \E order \in MapOrders(S) : S' = ComputeLiveSetsInOrder(F, S, order)
    /\ pc' = "ColorRoots"
    /\ UNCHANGED <<F, scanBB, rpoPos, AnyChanged, CR, Out>>

ColorRootsStart ==
    /\ pc = "ColorRoots"
    /\ IF ReturnsTwiceLookupFails(S)
       THEN pc' = "abort" /\ UNCHANGED CR
       ELSE pc' = "Greedy" /\ CR' = ColorRootsInit(S)
    /\ UNCHANGED <<F, S, scanBB, rpoPos, AnyChanged, Out>>

\* One iteration of the greedy loop: Ordering.next() and the colouring of
\* the element it gives; the loop ends when it gives -1.
ColorRootsNext ==
    /\ pc = "Greedy"
    /\ LET r == PEONext(CR.Ordering, S.Neighbors)
       IN IF r.Next = -1
          THEN /\ CR' = [CR EXCEPT !.Ordering = r.It]
               /\ pc' = "PlaceRootsAndUpdateCalls"
          ELSE /\ CR' = [GreedyColor(S, CR, r.Next) EXCEPT !.Ordering = r.It]
               /\ pc' = "Greedy"
    /\ UNCHANGED <<F, S, scanBB, rpoPos, AnyChanged, Out>>

PlaceRoots ==
    /\ pc = "PlaceRootsAndUpdateCalls"
    /\ F' = PlaceRootsAndUpdateCalls(F, S, CR.Colors, Out.ptlsStates)
    /\ pc' = "CleanupIR"
    /\ UNCHANGED <<S, scanBB, rpoPos, AnyChanged, CR, Out>>

Cleanup ==
    /\ pc = "CleanupIR"
    /\ F' = CleanupIR(F).F
    /\ Out' = [Out EXCEPT !.ret = TRUE]
    /\ pc' = "done"
    /\ UNCHANGED <<S, scanBB, rpoPos, AnyChanged, CR>>

Next ==
    \/ RunOnFunction
    \/ CleanupOnly
    \/ LocalScanBlock
    \/ LivenessStep
    \/ LivenessPassEnd
    \/ ComputeLiveSets
    \/ ColorRootsStart
    \/ ColorRootsNext
    \/ PlaceRoots
    \/ Cleanup

Spec == Init /\ [][Next]_vars

\* The iteration of ComputeLiveness is a loop of the one thread that runs
\* the pass: a step of the loop that can be taken is taken.  The functions of this
\* specification are the control-flow graphs, the phi functions and the
\* remaining paths of runOnFunction.
FairInit ==
    InitFrom({CfgFunction(FALSE, body, succ) :
                body \in [2..3 -> {"use", "sp_use"}], succ \in [1..3 -> SuccChoices]}
             \cup PhiFamily \cup MiscFamily)

FairSpec == FairInit /\ [][Next]_vars /\ WF_vars(LivenessStep) /\ WF_vars(LivenessPassEnd)

\* The pass on the functions that call with the variadic-pointer conventions
\* and call the pseudo-intrinsics: CleanupIR erases calls of theirs, which
\* the full and the cleanup-only path both end with.
JlcallInit == InitFrom(JlcallFamily)

JlcallSpec == JlcallInit /\ [][Next]_vars

----------------------------------------------------------------------------
(* PEOIterator on its own: the constructor on any symmetric Neighbors of up *)
(* to PEOVertices vertices, with or without self-entries, the lists in      *)
(* ascending or descending order, and then calls of next(); Out is the      *)
(* sequence of what the calls returned.                                     *)

PEOVertices == 4

NeighborsInput(n, edges, selfs, desc) ==
    [k \in 1..n |->
        LET ns == {j \in 0..(n - 1) :
                        \/ j = k - 1 /\ j \in selfs
                        \/ j # k - 1 /\ ({j, k - 1} \in edges)}
        IN IF desc THEN Reverse(SetToSortedSeq(ns)) ELSE SetToSortedSeq(ns)]

NeighborsInputs ==
    UNION {{NeighborsInput(n, edges, selfs, desc) :
                edges \in SUBSET {{i, j} : i, j \in 0..(n - 1)},
                selfs \in SUBSET (0..(n - 1)), desc \in BOOLEAN} : n \in 0..PEOVertices}

PEOInit ==
    /\ F = MiscFunction("no_calls")
    /\ \E g \in NeighborsInputs :
          /\ S = [EmptyState(F) EXCEPT !.MaxPtrNumber = Len(g) - 1, !.Neighbors = g]
          /\ CR = [NoColors EXCEPT !.Ordering = PEOIteratorInit(g)]
    /\ pc = "PEOIterator"
    /\ scanBB = 1
    /\ rpoPos = 1
    /\ AnyChanged = FALSE
    /\ Out = <<>>

\* One call of next(); two calls more than there are vertices are made.
PEOCallNext ==
    /\ pc = "PEOIterator"
    /\ Len(Out) < Len(S.Neighbors) + 2
    /\ CR' = [CR EXCEPT !.Ordering = PEONext(CR.Ordering, S.Neighbors).It]
    /\ Out' = Append(Out, PEONext(CR.Ordering, S.Neighbors).Next)
    /\ UNCHANGED <<F, S, pc, scanBB, rpoPos, AnyChanged>>

PEOSpec == PEOInit /\ [][PEOCallNext]_vars

----------------------------------------------------------------------------
(* Reference notions the properties are stated with.  They are computed     *)
(* from the IR by path search, not from the State of the pass.              *)

\* The blocks a path from the entry block reaches.
RECURSIVE ReachFrom(_, _)
ReachFrom(Fn, X) ==
    LET X2 == X \cup UNION {Range(Fn.blocks[b].succs) : b \in X}
    IN IF X2 = X THEN X ELSE ReachFrom(Fn, X2)

ReachableBlocks(Fn) == ReachFrom(Fn, {1})

PosOf(Fn, v) ==
    CHOOSE k \in DOMAIN Fn.blocks[BlockOf(Fn, v)].insts :
        Fn.blocks[BlockOf(Fn, v)].insts[k].name = v

\* The phases after which the results of a step can be read.
LivenessDone == pc = "ComputeLiveSets"

LiveSetsDone == pc \in {"ColorRoots", "Greedy", "PlaceRootsAndUpdateCalls", "CleanupIR"}

Coloured == pc \in {"PlaceRootsAndUpdateCalls", "CleanupIR"}

Placed == pc = "CleanupIR" \/ (pc = "done" /\ Out.ptlsStates # -1)

SafepointIds == 0..(Len(S.LiveSets) - 1)

SafepointOf(n) == S.ReverseSafepointNumbering[n + 1]

Ids == 0..S.MaxPtrNumber

----------------------------------------------------------------------------
(* C1: root coverage *)

\* What slot `slot` can hold before instruction k + 1 of a block whose
\* instructions are `is`, when X is what it can hold at the block's start:
\* the value and lane of the last store into the slot, X when there is none.
RECURSIVE SlotThrough(_, _, _, _)
SlotThrough(is, k, slot, X) ==
    IF k = 0 THEN X
    ELSE IF is[k].op = "rootstore" /\ is[k].idx = slot
    THEN {<<is[k].args[1], is[k].lanes>>}
    ELSE SlotThrough(is, k - 1, slot, X)

\* What the slot can hold at the start of each block, over the paths from
\* the function entry, where the zeroed frame holds null (value 0).
RECURSIVE SlotIn(_, _, _)
SlotIn(Fn, slot, In) ==
    LET In2 == [b \in DOMAIN In |->
                  In[b] \cup UNION {SlotThrough(Fn.blocks[q].insts, Len(Fn.blocks[q].insts),
                                                slot, In[q]) :
                                      q \in {q \in ReachableBlocks(Fn) :
                                                b \in Range(Fn.blocks[q].succs)}}]
    IN IF In2 = In THEN In ELSE SlotIn(Fn, slot, In2)

SlotBefore(Fn, s, slot) ==
    SlotThrough(Fn.blocks[BlockOf(Fn, s)].insts, PosOf(Fn, s) - 1, slot,
                SlotIn(Fn, slot, [b \in DOMAIN Fn.blocks |->
                                    IF b = 1 THEN {<<0, 0>>} ELSE {}])[BlockOf(Fn, s)])

SlotOfId(i) == CR.Colors[i + 1] + 2 + Len(S.Allocas)

StoredForId(i) == <<GetPtrForNumber(F, S, i).Val, GetPtrForNumber(F, S, i).lane>>

\* C1. Root coverage: after the stores are placed, at every safepoint s that
\* a path from the entry reaches and for every identifier i of the final
\* LiveSet[s], on every such path the last store into slot Color[i] before s
\* is a store of i: the slot holds i at s.
RootCoverage ==
    Placed =>
        \A n \in SafepointIds :
            BlockOf(F, SafepointOf(n)) \in ReachableBlocks(F) =>
                \A i \in S.LiveSets[n + 1] :
                    SlotBefore(F, SafepointOf(n), SlotOfId(i)) = {StoredForId(i)}

\* A live identifier at a safepoint whose block is entered both from a
\* block with a safepoint of its own and straight from the entry block.
RootCoverageWitness ==
    /\ Placed
    /\ \E n \in SafepointIds :
         LET b == BlockOf(F, SafepointOf(n))
         IN /\ S.LiveSets[n + 1] # {}
            /\ b # 1
            /\ 1 \in Range(predecessors(F, b))
            /\ \E q \in Range(predecessors(F, b)) : q # 1 /\ S.BBStates[q].HasSafepoint

----------------------------------------------------------------------------
(* C3, C4: the colouring *)

Color(i) == CR.Colors[i + 1]

\* C3. Colouring validity: after ColorRoots two distinct identifiers with the
\* same colour >= 0 are in no safepoint's final live set together.
ColoringValid ==
    Coloured =>
        \A i \in Ids : \A j \in Ids :
            (i # j /\ Color(i) = Color(j) /\ Color(i) >= 0) =>
                \A n \in SafepointIds : ~({i, j} \subseteq S.LiveSets[n + 1])

\* Two identifiers share a slot in a function with a returns_twice call.
ColoringValidWitness ==
    /\ Coloured
    /\ S.ReturnsTwice # <<>>
    /\ \E i \in Ids : \E j \in Ids : i # j /\ Color(i) = Color(j) /\ Color(i) >= 0

\* The identifiers live at a returns_twice safepoint.
Pinned ==
    UNION {S.LiveSets[S.SafepointNumbering[S.ReturnsTwice[k]] + 1] : k \in DOMAIN S.ReturnsTwice}

\* C4. Returns-twice pinning: the identifiers live at a returns_twice
\* safepoint have pairwise distinct colours in [0, P), and every other
\* identifier is uncoloured or has a colour >= P, during the greedy phase
\* and after it.
ReturnsTwicePinned ==
    (pc = "Greedy" \/ Coloured) =>
        /\ \A i \in Pinned : Color(i) >= 0 /\ Color(i) < CR.PreAssignedColors
        /\ \A i \in Pinned : \A j \in Pinned : i # j => Color(i) # Color(j)
        /\ \A i \in Ids \ Pinned : Color(i) = -1 \/ Color(i) >= CR.PreAssignedColors

\* Two pinned identifiers, and a greedily coloured one that is live with
\* neither of them at any safepoint.
ReturnsTwicePinnedWitness ==
    /\ Coloured
    /\ CR.PreAssignedColors >= 2
    /\ \E i \in Ids \ Pinned :
         /\ Color(i) >= CR.PreAssignedColors
         /\ \A n \in SafepointIds : i \in S.LiveSets[n + 1] => S.LiveSets[n + 1] \cap Pinned = {}

----------------------------------------------------------------------------
(* C2: the reference liveness.  A program point is <<block, position>>.     *)

Points(Fn) == UNION {{<<b, k>> : k \in DOMAIN Fn.blocks[b].insts} : b \in DOMAIN Fn.blocks}

InstAt(Fn, pt) == Fn.blocks[pt[1]].insts[pt[2]]

SuccPoints(Fn, pt) ==
    IF pt[2] < Len(Fn.blocks[pt[1]].insts) THEN {<<pt[1], pt[2] + 1>>}
    ELSE {<<b, 1>> : b \in Range(Fn.blocks[pt[1]].succs)}

\* The identifier of value v: that of the numbered value its chain of casts
\* leads to, -1 when there is none.
IdOf(v) ==
    IF FindBaseValue(F, S, v, TRUE) \in DOMAIN S.AllPtrNumbering
    THEN S.AllPtrNumbering[FindBaseValue(F, S, v, TRUE)] ELSE -1

\* The instruction at pt uses identifier i: as an operand of a call, load,
\* store, return or select, or, at the end of a block, as the value a phi of
\* a successor takes on the edge from this block.
UsesAt(Fn, pt, i) ==
    LET r == InstAt(Fn, pt)
    IN \/ /\ r.op \in {"load", "store", "ret", "select"}
             \/ (r.op = "call" /\ ~IsIntrinsic(r.callee))
          /\ \E a \in Range(r.args) :
                /\ isSpecialPtr(InfoOf(Fn, a).ty) \/ isUnionRep(InfoOf(Fn, a).ty)
                /\ IdOf(a) = i
       \/ /\ pt[2] = Len(Fn.blocks[pt[1]].insts)
          /\ \E q \in AllValues(Fn) :
                /\ q.op = "phi" /\ q.ty = "Tracked"
                /\ \E k \in DOMAIN q.args : q.inc[k] = pt[1] /\ IdOf(q.args[k]) = i

DefinesAt(Fn, pt, i) == InstAt(Fn, pt).name = S.ReversePtrNumbering[i]

\* The points from which a path reaches a use of i before any definition
\* of i.
RECURSIVE LiveFrom(_, _, _)
LiveFrom(Fn, i, W) ==
    LET W2 == W \cup {pt \in Points(Fn) :
                        \/ UsesAt(Fn, pt, i)
                        \/ ~DefinesAt(Fn, pt, i) /\ SuccPoints(Fn, pt) \cap W # {}}
    IN IF W2 = W THEN W ELSE LiveFrom(Fn, i, W2)

\* The points a path from the function entry reaches before it has run the
\* definition of i.
RECURSIVE UndefinedAt(_, _, _)
UndefinedAt(Fn, i, W) ==
    LET W2 == W \cup UNION {SuccPoints(Fn, pt) : pt \in {q \in W : ~DefinesAt(Fn, q, i)}}
    IN IF W2 = W THEN W ELSE UndefinedAt(Fn, i, W2)

PointOf(Fn, v) == <<BlockOf(Fn, v), PosOf(Fn, v)>>

\* The reference live set of safepoint n: the identifiers defined before it
\* on every path from the entry, from which a path reaches a use.
RefLive(n) ==
    {i \in Ids : /\ PointOf(F, SafepointOf(n)) \in LiveFrom(F, i, {})
                 /\ PointOf(F, SafepointOf(n)) \notin UndefinedAt(F, i, {<<1, 1>>})}

----------------------------------------------------------------------------
(* C5, C6, C7: the dataflow *)

LiveEquations(b) ==
    LET BBS == S.BBStates[b]
    IN /\ BBS.LiveOut = BBS.PhiOuts \cup
                        UNION {S.BBStates[q].LiveIn : q \in Range(successors(F, b))}
       /\ BBS.LiveIn = (BBS.UpExposedUses \cup BBS.UpExposedUsesUnrooted)
                       \cup (BBS.LiveOut \ BBS.Defs)

UnrootedEquations(b) ==
    LET BBS == S.BBStates[b]
    IN /\ BBS.UnrootedIn = UNION {S.BBStates[q].UnrootedOut : q \in Range(predecessors(F, b))}
       /\ BBS.UnrootedOut = IF BBS.HasSafepoint THEN BBS.DownExposedUnrooted
                            ELSE BBS.DownExposedUnrooted \cup BBS.UnrootedIn

\* C6 as stated. The unrootedness equations hold for every block when
\* ComputeLiveness terminates.
UnrootedEquationsAll == LivenessDone => \A b \in Blocks(F) : UnrootedEquations(b)

\* C6, amended. The unrootedness equations hold for every block reachable
\* from the entry block when ComputeLiveness terminates.
UnrootedEquationsReachable ==
    LivenessDone => \A b \in ReachableBlocks(F) : UnrootedEquations(b)

\* A block without a safepoint passes on what comes in unrooted, and a block
\* with one stops it.
UnrootedEquationsWitness ==
    /\ LivenessDone
    /\ \E b \in ReachableBlocks(F) :
         ~S.BBStates[b].HasSafepoint /\ S.BBStates[b].UnrootedIn # {}
                                     /\ S.BBStates[b].DownExposedUnrooted = {}
    /\ \E b \in ReachableBlocks(F) :
         S.BBStates[b].HasSafepoint /\ S.BBStates[b].UnrootedIn # {}
                                    /\ S.BBStates[b].UnrootedOut = {}

DataflowGrows ==
    \A b \in Blocks(F) :
        /\ S.BBStates[b].LiveIn \subseteq S'.BBStates[b].LiveIn
        /\ S.BBStates[b].LiveOut \subseteq S'.BBStates[b].LiveOut
        /\ S.BBStates[b].UnrootedIn \subseteq S'.BBStates[b].UnrootedIn
        /\ S.BBStates[b].UnrootedOut \subseteq S'.BBStates[b].UnrootedOut

\* C7. Dataflow termination: the iteration of ComputeLiveness ends, it ends
\* after a pass over all blocks of the traversal in which nothing changed,
\* and while it runs LiveIn, LiveOut, UnrootedIn and UnrootedOut only grow.
DataflowTerminates ==
    /\ (pc = "ComputeLiveness") ~> (pc = "ComputeLiveSets")
    /\ [][pc = "ComputeLiveness" =>
            /\ DataflowGrows
            /\ pc' = "ComputeLiveSets" => (~AnyChanged /\ rpoPos > Len(RPOT(F)))]_vars

\* The iteration has ended for a function with a loop that carries a live
\* value around.
DataflowTerminatesWitness ==
    /\ LivenessDone
    /\ \E b \in ReachableBlocks(F) :
         /\ b \in ReachFrom(F, Range(successors(F, b)))
         /\ S.BBStates[b].LiveIn \cap S.BBStates[b].LiveOut # {}

----------------------------------------------------------------------------
(* C8, C9: the live sets *)

LiveAcross(n) ==
    S.BBStates[BlockOf(F, SafepointOf(n))].LiveIn
        \cap S.BBStates[BlockOf(F, SafepointOf(n))].LiveOut

RECURSIVE ChainRooted(_, _, _, _)
ChainRooted(R, i, LS, fuel) ==
    /\ fuel > 0
    /\ i \in DOMAIN R
    /\ \/ R[i] = -1
       \/ R[i] \in LS
       \/ ChainRooted(R, R[i], LS, fuel - 1)

\* C9. Refinement safety: for every identifier the refinement step of
\* ComputeLiveSets takes out of a live set, the chain of load refinements
\* from it reaches -1 or an identifier that is in the final live set.
RefinementSafe ==
    [][pc = "ComputeLiveSets" =>
        \A n \in SafepointIds :
            \A i \in LiveSetBeforeRefinement(F, S, n) \ S'.LiveSets[n + 1] :
                ChainRooted(S.LoadRefinements, i, S'.LiveSets[n + 1], S.MaxPtrNumber + 1)]_vars

\* A live identifier was taken out of a live set, and so was the identifier
\* it is refined to.
RefinementSafeWitness ==
    /\ pc = "ColorRoots"
    /\ \E n \in SafepointIds :
         \E i \in (RefLive(n) \ S.LiveSets[n + 1]) \cap DOMAIN S.LoadRefinements :
            /\ S.LoadRefinements[i] \in RefLive(n) \ S.LiveSets[n + 1]
            /\ S.LoadRefinements[i] > i

----------------------------------------------------------------------------
(* C10: push and pop *)

InstsOf(b, op) == {k \in DOMAIN F.blocks[b].insts : F.blocks[b].insts[k].op = op}

FrameEmitted == \E b \in Blocks(F) : InstsOf(b, "gcframe") # {}

\* C10. Push/pop balance: when a frame is emitted there is one push, in the
\* entry block right after the call of the thread-local getter; a block that
\* ends in a return has one pop, right before the return; a block that
\* does not end in a return has none.
PushPopBalanced ==
    (Placed /\ FrameEmitted) =>
        /\ \A b \in Blocks(F) \ {1} : InstsOf(b, "gcpush") = {}
        /\ InstsOf(1, "gcpush") = {PosOf(F, Out.ptlsStates) + 1}
        /\ \A b \in Blocks(F) :
              InstsOf(b, "gcpop") = IF Terminator(F, b).op = "ret"
                                    THEN {Len(F.blocks[b].insts) - 1} ELSE {}

\* A frame in a function with a return, an exit by `unreachable` and a block
\* that branches on.
PushPopBalancedWitness ==
    /\ Placed
    /\ FrameEmitted
    /\ \E b \in Blocks(F) : Terminator(F, b).op = "ret"
    /\ \E b \in Blocks(F) : Terminator(F, b).op = "unreachable"
    /\ \E b \in Blocks(F) : Terminator(F, b).op = "br"

----------------------------------------------------------------------------
(* C11: functions without safepoints *)

\* The safepoints of a function, by the rule of LocalScan's call case: the
\* calls that are not intrinsics and whose callee is not known not to be a
\* safepoint.  The call of the thread-local getter is one of them.
SafepointCalls(Fn) ==
    {r.name : r \in {u \in AllValues(Fn) :
                        u.op = "call" /\ ~IsIntrinsic(u.callee)
                        /\ u.callee \notin NotSafepointCallees}}

FrameOps == {"gcframe", "gcpush", "gcpop", "rootstore"}

NoFrameCode == \A b \in Blocks(F) : \A op \in FrameOps : InstsOf(b, op) = {}

\* C11. A function without safepoints gets no frame, no push, no pop and no
\* root store, whatever else it contains, allocas of tracked pointers
\* included: it has no call of the thread-local getter, and none of the
\* phases that number safepoints or emit frame code runs on it.
NoSafepointsNoFrame ==
    SafepointCalls(F) = {} =>
        /\ NoFrameCode
        /\ pc \in {"runOnFunction", "CleanupOnly", "done"}
        /\ S.MaxSafepointNumber = -1 /\ S.Allocas = <<>>

\* The pass has finished on a function without safepoints that has an
\* alloca of a tracked pointer and a use of a tracked value.
NoSafepointsWitness ==
    /\ pc = "done"
    /\ SafepointCalls(F) = {}
    /\ \E b \in Blocks(F) : \E k \in InstsOf(b, "alloca") : F.blocks[b].insts[k].elt = "Tracked"
    /\ \E b \in Blocks(F) : InstsOf(b, "store") # {}

----------------------------------------------------------------------------
(* C12: frame layout *)

NAllocas == Len(S.Allocas)

MaxColor == MaxOf(Range(CR.Colors) \cup {-1})

\* The instructions of the function with operation op.
AllOf(op) == {r \in AllValues(F) : r.op = op}

\* The safepoint a root store stands before: the first instruction after
\* it in its block that is not a root store.
SafepointAfter(r) ==
    LET is == F.blocks[BlockOf(F, r.name)].insts
        later == {k \in DOMAIN is : k > PosOf(F, r.name) /\ is[k].op # "rootstore"}
    IN is[CHOOSE k \in later : \A j \in later : k <= j].name

\* C12. Frame layout: an emitted frame has NAllocas + MaxColor + 1 + 2
\* slots; the push writes NRoots * 2 into slot 0, NRoots being
\* MaxColor + 1 + NAllocas; the k-th alloca (from 0) has become the address
\* of slot 2 + k; a root store of identifier i goes to slot
\* 2 + NAllocas + Color[i], which lies from 2 + NAllocas up to the frame's
\* length; two live identifiers have the same slot iff they have the same
\* colour.
FrameLayout ==
    (Placed /\ FrameEmitted) =>
        /\ \A r \in AllOf("gcframe") : r.idx = NAllocas + MaxColor + 1 + 2
        /\ Cardinality(AllOf("gcframe")) = 1
        /\ \A r \in AllOf("gcpush") : r.idx = (MaxColor + 1 + NAllocas) * 2
        /\ \A k \in 0..(NAllocas - 1) :
              /\ InfoOf(F, S.Allocas[k + 1]).op = "gep"
              /\ InfoOf(F, S.Allocas[k + 1]).idx = 2 + k
              /\ InfoOf(F, S.Allocas[k + 1]).args = <<(CHOOSE g \in AllOf("gcframe") : TRUE).name>>
        /\ \A r \in AllOf("rootstore") :
              /\ \E i \in S.LiveSets[S.SafepointNumbering[SafepointAfter(r)] + 1] :
                    /\ StoredForId(i) = <<r.args[1], r.lanes>>
                    /\ r.idx = 2 + NAllocas + CR.Colors[i + 1]
              /\ r.idx >= 2 + NAllocas
              /\ r.idx < NAllocas + MaxColor + 1 + 2
        /\ \A n \in SafepointIds : \A i, j \in S.LiveSets[n + 1] :
              (SlotOfId(i) = SlotOfId(j)) <=> (CR.Colors[i + 1] = CR.Colors[j + 1])

\* A frame with two allocas and root stores into two different slots.
FrameLayoutWitness ==
    /\ Placed
    /\ FrameEmitted
    /\ NAllocas >= 2
    /\ \E r1, r2 \in AllOf("rootstore") : r1.idx # r2.idx

----------------------------------------------------------------------------
(* C13: the colouring of a chordal interference graph *)

\* The interference graph: its vertices are the identifiers live at some
\* safepoint (the others have no neighbours, not even themselves, and get
\* no colour); two of them are adjacent when one is in the other's
\* Neighbors.
Vertices == {i \in Ids : S.Neighbors[i + 1] # <<>>}

Adjacent(i, j) == i # j /\ j \in Range(S.Neighbors[i + 1])

IsClique(X) == \A i \in X : \A j \in X : i # j => Adjacent(i, j)

Simplicial(X) == {v \in X : IsClique({u \in X \ {v} : Adjacent(v, u)})}

\* A graph is chordal iff its vertices can be removed one by one, each
\* having a clique for neighbourhood among those that remain.
RECURSIVE IsChordal(_)
IsChordal(X) ==
    IF X = {} THEN TRUE
    ELSE IF Simplicial(X) = {} THEN FALSE
    ELSE IsChordal(X \ {CHOOSE v \in Simplicial(X) : TRUE})

LargestClique == MaxOf({Cardinality(X) : X \in {Y \in SUBSET Vertices : IsClique(Y)}})

Colourable(k) ==
    \E f \in [Vertices -> 0..(k - 1)] :
        \A i \in Vertices : \A j \in Vertices : Adjacent(i, j) => f[i] # f[j]

ChromaticNumber == CHOOSE k \in 0..Cardinality(Vertices) :
                      Colourable(k) /\ \A m \in 0..(k - 1) : ~Colourable(m)

ColorsUsed == Cardinality(Range(CR.Colors) \ {-1})

\* C13. Colouring optimality: when no safepoint may return twice and the
\* interference graph is chordal, ColorRoots uses as many colours as the
\* chromatic number of the graph, which is the size of its largest clique.
ColoringOptimal ==
    (Coloured /\ S.ReturnsTwice = <<>> /\ IsChordal(Vertices)) =>
        /\ ColorsUsed = LargestClique
        /\ ColorsUsed = ChromaticNumber

\* A chordal graph on four vertices that has an edge, is no clique, and has
\* a vertex adjacent to two of the others: colouring it in another order can
\* take more colours than its largest clique has vertices.
ColoringOptimalWitness ==
    /\ Coloured
    /\ S.ReturnsTwice = <<>>
    /\ IsChordal(Vertices)
    /\ Cardinality(Vertices) = 4
    /\ ~IsClique(Vertices)
    /\ LargestClique = 2
    /\ \E v \in Vertices : Cardinality({u \in Vertices : Adjacent(v, u)}) = 2

----------------------------------------------------------------------------
(* C14: one definition per identifier *)

\* LocalScan has scanned every block.
ScanDone == \A b \in Blocks(F) : S.BBStates[b].Done

DefBlocks(i) == {b \in Blocks(F) : i \in S.BBStates[b].Defs}

\* The identifiers a lift created: their canonical value is an instruction
\* the pass inserted, a select or a phi.
LiftedIds ==
    {i \in Ids : LET r == InfoOf(F, S.ReversePtrNumbering[i])
                 IN r.op \in {"select", "phi"}
                    /\ \E v \in DOMAIN S.AllPtrNumbering :
                          /\ S.AllPtrNumbering[v] = i
                          /\ InfoOf(F, v).op = r.op /\ InfoOf(F, v).ty # "Tracked"}

\* C14. Single definition: after LocalScan every identifier from 0 to
\* MaxPtrNumber has its Defs bit in exactly one block, the identifiers of
\* lifted phis and selects and those first numbered through a use included.
SingleDefinition ==
    ScanDone => \A i \in Ids : Cardinality(DefBlocks(i)) = 1

\* The scan is over in a function with three identifiers, one of them
\* lifted, defined in one block and used through a cast in another.
SingleDefinitionWitness ==
    /\ ScanDone
    /\ S.MaxPtrNumber >= 2
    /\ \E i \in LiftedIds : \E b \in Blocks(F) \ DefBlocks(i) :
          i \in S.BBStates[b].UpExposedUsesUnrooted

----------------------------------------------------------------------------
(* C15: numbering round trip *)

\* The identifiers whose canonical value is a pointer or a union (the lanes
\* of a vector have the vector for canonical value).
ScalarIds ==
    {i \in DOMAIN S.ReversePtrNumbering :
        LET ty == InfoOf(F, S.ReversePtrNumbering[i]).ty
        IN isSpecialPtr(ty) \/ isUnionRep(ty)}

NumberOfCanonical(i) == Number([F |-> F, S |-> S], S.ReversePtrNumbering[i])

\* C15. Numbering round trip: at every point of the scan and after it, for
\* every identifier i of a pointer or union value, Number of
\* ReversePtrNumbering[i] is i, and the call creates no identifier and lifts
\* nothing; so for the identifiers of lifted phis and selects.
NumberRoundTrip ==
    pc \in {"LocalScan", "ComputeLiveness", "ComputeLiveSets", "ColorRoots", "Greedy",
            "PlaceRootsAndUpdateCalls"} =>
        \A i \in ScalarIds :
            /\ NumberOfCanonical(i).Num = i
            /\ NumberOfCanonical(i).C.S.MaxPtrNumber = S.MaxPtrNumber
            /\ NumberOfCanonical(i).C.F = F

\* In the middle of the scan: the first block is scanned, the second is
\* not, and there are the identifiers of a lifted select and of a load.
NumberRoundTripWitness ==
    /\ pc = "LocalScan"
    /\ scanBB > 1
    /\ \E i \in LiftedIds : InfoOf(F, S.ReversePtrNumbering[i]).op = "select"
    /\ \E i \in ScalarIds : InfoOf(F, S.ReversePtrNumbering[i]).op = "load"

----------------------------------------------------------------------------
(* Base invariance of the numbering.                                        *)

\* w is a link of a chain: a bitcast, a GEP, or an address-space cast whose
\* operand is not in address space 0.
IsChainLink(Fn, w) ==
    \/ InfoOf(Fn, w).op \in {"bitcast", "gep"}
    \/ /\ InfoOf(Fn, w).op = "addrspacecast"
       /\ InfoOf(Fn, InfoOf(Fn, w).args[1]).ty # "Generic"

Numberable(Fn, v) == isSpecialPtr(InfoOf(Fn, v).ty) \/ isUnionRep(InfoOf(Fn, v).ty)

\* w and the values below it in its chain.
RECURSIVE ChainDown(_, _)
ChainDown(Fn, w) ==
    IF IsChainLink(Fn, w) /\ Numberable(Fn, InfoOf(Fn, w).args[1])
    THEN {w} \cup ChainDown(Fn, InfoOf(Fn, w).args[1])
    ELSE {w}

\* The tops of the chains: the values no link is based on.
ChainTops(Fn) ==
    {w \in {i.name : i \in AllValues(Fn)} :
        /\ Numberable(Fn, w)
        /\ ~\E u \in {i.name : i \in AllValues(Fn)} :
                IsChainLink(Fn, u) /\ InfoOf(Fn, u).args[1] = w}

\* Number applied to the values of vs one after the other: the context
\* after the last, and the set of the numbers returned.
RECURSIVE NumberEach(_, _, _)
NumberEachNext(r, vs, nums) == NumberEach(r.C, vs, nums \cup {r.Num})

NumberEach(C, vs, nums) ==
    IF vs = <<>> THEN [C |-> C, Nums |-> nums]
    ELSE NumberEachNext(Number(C, Head(vs)), Tail(vs), nums)

\* C16. Base invariance: at any moment of the local scan, numbering the
\* values of a chain of bitcasts, GEPs and address-space casts (of operands
\* outside address space 0) in any order gives every one of them the same
\* number, the number the top of the chain would get if it were numbered
\* first, and the whole chain takes at most one fresh identifier.
BaseInvariance ==
    pc \in {"LocalScan", "ComputeLiveness"} =>
        \A t \in ChainTops(F) :
            \A vs \in Arrangements(ChainDown(F, t)) \ {<<>>} :
                /\ NumberEach([F |-> F, S |-> S], vs, {}).Nums
                        = {Number([F |-> F, S |-> S], t).Num}
                /\ NumberEach([F |-> F, S |-> S], vs, {}).C.S.MaxPtrNumber
                        <= S.MaxPtrNumber + 1

\* The scan is over for a chain of four values (a load, a bitcast of it, a
\* cast of that to the derived space, a GEP of that) that was numbered from
\* the middle: a store of the bitcast was met first and a store of the GEP
\* after it, so that the GEP found the number of the bitcast and was never
\* entered in the numbering itself.
BaseInvarianceWitness ==
    /\ pc = "ComputeLiveness"
    /\ {3, 4, 5, 6} \subseteq {i.name : i \in AllValues(F)}
    /\ ChainDown(F, 6) = {3, 4, 5, 6}
    /\ InfoOf(F, 6).op = "gep" /\ InfoOf(F, 3).op = "load"
    /\ \E st \in AllValues(F) : st.op = "store" /\ st.args[1] = 6
    /\ {3, 4} \subseteq DOMAIN S.AllPtrNumbering
    /\ 5 \notin DOMAIN S.AllPtrNumbering /\ 6 \notin DOMAIN S.AllPtrNumbering
    /\ S.AllPtrNumbering[4] = S.AllPtrNumbering[3]
    /\ S.AllPtrNumbering[3] >= 0

----------------------------------------------------------------------------
(* The two paths of runOnFunction.                                          *)

\* The module declares the thread-local getter and the entry block calls it.
UsesGetter(Fn) ==
    /\ "jl_get_ptls_states" \in Fn.module
    /\ \E k \in DOMAIN Fn.blocks[1].insts :
            /\ Fn.blocks[1].insts[k].op = "call"
            /\ Fn.blocks[1].insts[k].callee = "jl_get_ptls_states"

\* The phases of the full path in their order; ComputeLiveSets is the tail
\* of ComputeLiveness and the greedy loop the body of ColorRoots.
Phases ==
    <<"runOnFunction", "LocalScan", "ComputeLiveness", "ColorRoots",
      "PlaceRootsAndUpdateCalls", "CleanupIR", "done">>

PhaseOf(p) ==
    CASE p = "ComputeLiveSets" -> "ComputeLiveness"
      [] p = "Greedy" -> "ColorRoots"
      [] OTHER -> p

PhaseRank(p) == IndexOf(Phases, PhaseOf(p))

PhaseStep ==
    /\ pc = "runOnFunction" =>
            /\ pc' = IF UsesGetter(F) THEN "LocalScan" ELSE "CleanupOnly"
            /\ F' = F /\ S' = S
    /\ pc = "CleanupOnly" =>
            /\ pc' = "done"
            /\ F' = CleanupIR(F).F
            /\ Out'.ret = CleanupIR(F).ChangesMade
            /\ S' = S /\ CR' = CR
            /\ S.MaxPtrNumber = -1 /\ S.MaxSafepointNumber = -1
            /\ \A b \in DOMAIN S.BBStates : S.BBStates[b] = EmptyBBState
            /\ NoFrameCode'
    /\ pc \in {"LocalScan", "ComputeLiveness", "ComputeLiveSets", "ColorRoots", "Greedy",
               "PlaceRootsAndUpdateCalls", "CleanupIR"} =>
            \/ pc' = "abort" /\ PhaseOf(pc) = "ColorRoots"
            \/ /\ pc' # "abort"
               /\ PhaseRank(pc') \in {PhaseRank(pc), PhaseRank(pc) + 1}
    /\ pc = "CleanupIR" => pc' = "done" /\ Out'.ret = TRUE

----------------------------------------------------------------------------
(* Independence of the iteration order of the maps keyed by addresses.      *)

\* C18. Determinism: whatever the order in which the iteration of
\* SafepointNumbering gives the safepoints, ComputeLiveSets leaves the same
\* live sets and the same Neighbors lists, element order included: the
\* State that the elimination order, the Colors and the stores are computed
\* from is the same.
OrderIndependent ==
    pc = "ComputeLiveSets" =>
        \A order \in MapOrders(S) :
            ComputeLiveSetsInOrder(F, S, order) = ComputeLiveSetsOf(F, S)

\* ComputeLiveSets is about to run on three safepoints that hold different
\* sets of identifiers, two of which share an identifier that is not the
\* least of either.
OrderIndependentWitness ==
    /\ pc = "ComputeLiveSets"
    /\ S.MaxSafepointNumber >= 2
    /\ \E a, b \in DOMAIN ComputeLiveSetsOf(F, S).LiveSets :
          \E i \in Ids :
            /\ a < b
            /\ i \in ComputeLiveSetsOf(F, S).LiveSets[a]
            /\ i \in ComputeLiveSetsOf(F, S).LiveSets[b]
            /\ \E j \in ComputeLiveSetsOf(F, S).LiveSets[b] \ ComputeLiveSetsOf(F, S).LiveSets[a] :
                    \E k \in ComputeLiveSetsOf(F, S).LiveSets[a] : j < k

----------------------------------------------------------------------------
(* The stores emitted between the safepoints of a block.                    *)

\* Safepoint m is the one before safepoint n in the block of both.
PrecedesInBlock(m, n) ==
    /\ BlockOf(F, SafepointOf(m)) = BlockOf(F, SafepointOf(n))
    /\ PosOf(F, SafepointOf(m)) < PosOf(F, SafepointOf(n))
    /\ ~\E o \in SafepointIds :
            /\ BlockOf(F, SafepointOf(o)) = BlockOf(F, SafepointOf(n))
            /\ PosOf(F, SafepointOf(m)) < PosOf(F, SafepointOf(o))
            /\ PosOf(F, SafepointOf(o)) < PosOf(F, SafepointOf(n))

\* The positions of the root stores that stand immediately before position
\* k of a block.
StoreRun(is, k) == {j \in 1..(k - 1) : \A o \in j..(k - 1) : is[o].op = "rootstore"}

StoresBetween(is, pm, pn, Now, Last) ==
    /\ {<<is[j].args[1], is[j].lanes, is[j].idx>> : j \in StoreRun(is, pn)}
            = {<<StoredForId(i)[1], StoredForId(i)[2], SlotOfId(i)>> : i \in Now \ Last}
    /\ Cardinality(StoreRun(is, pn)) = Cardinality(Now \ Last)
    /\ \A j \in (pm + 1)..(pn - 1) : is[j].op = "rootstore" => j \in StoreRun(is, pn)

\* C19. Within a block, the stores that stand immediately before a
\* safepoint that is not the first of the block are those of the
\* identifiers of its live set that are not in the live set of the safepoint
\* before it, one store for each, and there is no other store between the
\* two.
StoreRule ==
    pc = "CleanupIR" =>
        \A m, n \in SafepointIds :
            PrecedesInBlock(m, n) =>
                StoresBetween(F.blocks[BlockOf(F, SafepointOf(n))].insts,
                              PosOf(F, SafepointOf(m)), PosOf(F, SafepointOf(n)),
                              S.LiveSets[n + 1], S.LiveSets[m + 1])

\* The stores are placed in a block with two safepoints one after the
\* other, where one identifier is live at both, one only at the second and
\* one only at the first.
StoreRuleWitness ==
    /\ pc = "CleanupIR"
    /\ \E m, n \in SafepointIds :
          /\ PrecedesInBlock(m, n)
          /\ S.LiveSets[n + 1] \cap S.LiveSets[m + 1] # {}
          /\ S.LiveSets[n + 1] \ S.LiveSets[m + 1] # {}
          /\ S.LiveSets[m + 1] \ S.LiveSets[n + 1] # {}

----------------------------------------------------------------------------
(* What is taken for rooted at the start of a block.                        *)

CarriesSafepoint(b) == \E n \in SafepointIds : BlockOf(F, SafepointOf(n)) = b

\* The blocks without safepoint from which B is reached through blocks
\* without safepoint.
RECURSIVE WalkedThrough(_, _)
WalkedThrough(B, T) ==
    IF T \cup {p \in Blocks(F) : ~CarriesSafepoint(p)
                                  /\ \E q \in T \cup {B} : p \in Range(predecessors(F, q))} = T
    THEN T
    ELSE WalkedThrough(B, T \cup {p \in Blocks(F) :
                                    ~CarriesSafepoint(p)
                                    /\ \E q \in T \cup {B} : p \in Range(predecessors(F, q))})

\* The blocks with a safepoint at which the walk from B stops.
StoppedAt(B) ==
    {p \in Blocks(F) : CarriesSafepoint(p)
                       /\ \E q \in WalkedThrough(B, {}) \cup {B} : p \in Range(predecessors(F, q))}

\* The last safepoint of block b in program order.
LastSafepointOf(b) ==
    CHOOSE n \in SafepointIds :
        /\ BlockOf(F, SafepointOf(n)) = b
        /\ \A m \in SafepointIds :
                BlockOf(F, SafepointOf(m)) = b
                    => PosOf(F, SafepointOf(m)) <= PosOf(F, SafepointOf(n))

\* C20. The LastLive a block B starts from is what is in the live set of
\* the last safepoint of every block with a safepoint that the backward
\* walk from B stops at, the walk going on through the blocks without
\* safepoint, B itself being one it stops at when it is its own predecessor
\* or is reached again round a cycle; it is empty when the walk stops
\* nowhere.
InitialLastLive ==
    pc = "PlaceRootsAndUpdateCalls" =>
        \A B \in Blocks(F) :
            CarriesSafepoint(B) =>
                AddInPredLiveOuts(F, S, B) =
                    {i \in Ids : /\ StoppedAt(B) # {}
                                 /\ \A p \in StoppedAt(B) :
                                        i \in S.LiveSets[LastSafepointOf(p) + 1]}

\* The stores are about to be placed in a function in which the walk from
\* a block goes through a block without safepoint and stops at two blocks,
\* one of them the block it started from, and the live set of one of the two
\* holds an identifier that the result does not.
InitialLastLiveWitness ==
    /\ pc = "PlaceRootsAndUpdateCalls"
    /\ \E B \in Blocks(F) :
          /\ CarriesSafepoint(B)
          /\ WalkedThrough(B, {}) # {}
          /\ Cardinality(StoppedAt(B)) >= 2
          /\ B \in StoppedAt(B)
          /\ \E p \in StoppedAt(B) :
                S.LiveSets[LastSafepointOf(p) + 1] \ AddInPredLiveOuts(F, S, B) # {}

----------------------------------------------------------------------------
(* The perfect-elimination iterator.                                        *)

\* The neighbours of v other than v itself.
OthersOf(v) == {j \in Range(S.Neighbors[v + 1]) : j # v}

\* Out[k] has, among the vertices not returned before it, the most
\* neighbours returned before it.
MaximumCardinality(k) ==
    \A u \in (0..(Len(S.Neighbors) - 1)) \ {Out[j] : j \in 1..(k - 1)} :
        Cardinality(OthersOf(u) \cap {Out[j] : j \in 1..(k - 1)})
            <= Cardinality(OthersOf(Out[k]) \cap {Out[j] : j \in 1..(k - 1)})

\* A vertex not yet returned has a weight that names a level and a pos that
\* names an entry of this level which holds the vertex.
InBuckets(It, v) ==
    /\ It.Elements[v + 1].weight >= 0
    /\ It.Elements[v + 1].weight < Len(It.Levels)
    /\ It.Elements[v + 1].pos >= 0
    /\ It.Elements[v + 1].pos < Len(It.Levels[It.Elements[v + 1].weight + 1])
    /\ It.Levels[It.Elements[v + 1].weight + 1][It.Elements[v + 1].pos + 1] = v

\* The accesses of the raising loop of next() for the neighbours ns of the
\* element taken: Elements[Neighbor], and Levels[weight][pos] of a
\* neighbour not yet returned, are in range at the time they are made.
RECURSIVE RaiseInRange(_, _, _)
RaiseInRange(It, NextElement, ns) ==
    \/ ns = <<>>
    \/ /\ Head(ns) \in 0..(Len(It.Elements) - 1)
       /\ \/ Head(ns) = NextElement
          \/ It.Elements[Head(ns) + 1].weight = -1
          \/ InBuckets(It, Head(ns))
       /\ RaiseInRange(RaiseNeighbors(It, NextElement, <<Head(ns)>>), NextElement, Tail(ns))

NextInRange(It, p) ==
    p.Next # -1 =>
        RaiseInRange([Elements |-> [It.Elements EXCEPT ![p.Next + 1].weight = -1],
                      Levels |-> p.Levels],
                     p.Next, S.Neighbors[p.Next + 1])

\* C21. On any symmetric Neighbors, with or without self-entries, the calls
\* of next() return every vertex once and after that -1 for ever; each
\* vertex returned has, among those not returned before it, the most
\* neighbours returned before it; a vertex not yet returned sits in the
\* level its weight names at the position its pos names, and the next call
\* indexes Elements and Levels in range.
PEOIteratorCorrect ==
    pc = "PEOIterator" =>
        /\ \A k \in DOMAIN Out :
              IF k <= Len(S.Neighbors)
              THEN /\ Out[k] \in 0..(Len(S.Neighbors) - 1)
                   /\ \A j \in 1..(k - 1) : Out[j] # Out[k]
                   /\ MaximumCardinality(k)
              ELSE Out[k] = -1
        /\ \A v \in (0..(Len(S.Neighbors) - 1)) \ Range(Out) : InBuckets(CR.Ordering, v)
        /\ \A v \in Range(Out) \ {-1} : CR.Ordering.Elements[v + 1].weight = -1
        /\ NextInRange(CR.Ordering, PopHighest(CR.Ordering.Levels))

\* next() has returned the four vertices of a path 1 - 0 - 2 - 3 with
\* self-entries, not in the order of their numbers, and -1 twice after.
PEOIteratorWitness ==
    /\ pc = "PEOIterator"
    /\ Len(S.Neighbors) = 4
    /\ S.Neighbors[1] = <<0, 1, 2>>
    /\ S.Neighbors[4] = <<2, 3>>
    /\ Len(Out) = 6
    /\ Out[5] = -1 /\ Out[6] = -1
    /\ \E k \in 1..3 : Out[k] > Out[k + 1]
    /\ \E k \in 1..3 : Out[k] < Out[k + 1]

----------------------------------------------------------------------------
(* The interference graph.                                                  *)

\* C22. After ComputeLiveSets there is a Neighbors list for every
\* identifier, without repetition, and j is in Neighbors[i] exactly when
\* some final live set holds both i and j: i is its own neighbour exactly
\* when it is live at some safepoint, has no neighbours exactly when it is
\* live at none, and j is a neighbour of i exactly when i is one of j.
InterferenceExact ==
    LiveSetsDone =>
        /\ Len(S.Neighbors) = S.MaxPtrNumber + 1
        /\ \A i \in Ids :
              /\ Len(S.Neighbors[i + 1]) = Cardinality(Range(S.Neighbors[i + 1]))
              /\ \A j \in Ids :
                    j \in Range(S.Neighbors[i + 1])
                        <=> \E n \in SafepointIds : {i, j} \subseteq S.LiveSets[n + 1]
              /\ Range(S.Neighbors[i + 1]) \subseteq Ids
              /\ (S.Neighbors[i + 1] = <<>>) <=> ~\E n \in SafepointIds : i \in S.LiveSets[n + 1]
              /\ \A j \in Ids :
                    j \in Range(S.Neighbors[i + 1]) <=> i \in Range(S.Neighbors[j + 1])

\* ComputeLiveSets has run; one identifier is live at two safepoints with
\* different company, and another at none.
InterferenceExactWitness ==
    /\ pc = "ColorRoots"
    /\ \E i \in Ids : \E m, n \in SafepointIds :
          /\ i \in S.LiveSets[m + 1] \cap S.LiveSets[n + 1]
          /\ S.LiveSets[m + 1] \ S.LiveSets[n + 1] # {}
          /\ S.LiveSets[n + 1] \ S.LiveSets[m + 1] # {}
          /\ Len(S.Neighbors[i + 1]) >= 3
    /\ \E i \in Ids : S.Neighbors[i + 1] = <<>>

----------------------------------------------------------------------------
(* What the local scan leaves for a block.                                  *)

\* The phases in which the function is as the scan left it.
BeforePlacement(p) ==
    p \in {"LocalScan", "ComputeLiveness", "ComputeLiveSets", "ColorRoots", "Greedy",
           "PlaceRootsAndUpdateCalls"}

\* The identifiers whose defining instruction is in block b with no
\* safepoint after it in the block.
DefinedAfterSafepoints(Fn, St, b) ==
    {i \in 0..St.MaxPtrNumber :
        /\ BlockOf(Fn, St.ReversePtrNumbering[i]) = b
        /\ ~\E s \in SafepointCalls(Fn) :
                /\ BlockOf(Fn, s) = b
                /\ PosOf(Fn, s) > PosOf(Fn, St.ReversePtrNumbering[i])}

DownExposedStep ==
    /\ BeforePlacement(pc') =>
            \A b \in Blocks(F') :
                S'.BBStates[b].Done =>
                    S'.BBStates[b].DownExposedUnrooted = DefinedAfterSafepoints(F', S', b)
    /\ pc = "LocalScan" =>
            /\ S'.BBStates[scanBB].Done
            /\ S'.BBStates[scanBB].UnrootedOut = S'.BBStates[scanBB].DownExposedUnrooted

\* C23. After the scan of a block B, DownExposedUnrooted[B] holds exactly
\* the identifiers defined in B after all the safepoints of B, the result
\* of a call that is the last safepoint of B included, and the scan leaves
\* UnrootedOut[B] equal to it.
DownExposedExact == [][DownExposedStep]_vars

\* The scan is over for a function in whose entry block a load is followed
\* by safepoints, the last of them a call whose result has an identifier.
DownExposedExactWitness ==
    /\ pc = "ComputeLiveness"
    /\ \E i \in S.BBStates[1].DownExposedUnrooted :
          /\ S.ReversePtrNumbering[i] \in SafepointCalls(F)
          /\ BlockOf(F, S.ReversePtrNumbering[i]) = 1
    /\ \E i \in S.BBStates[1].Defs \ S.BBStates[1].DownExposedUnrooted :
          InfoOf(F, S.ReversePtrNumbering[i]).op = "load"
    /\ S.BBStates[1].UnrootedOut = S.BBStates[1].DownExposedUnrooted

\* C24. After the scan of a block B, the LiveIfLiveOut list of a safepoint
\* s of B holds each identifier defined in B before s once, and nothing
\* else: not the identifier of the result of s itself, and none defined in
\* another block.
LiveIfLiveOutExact ==
    BeforePlacement(pc) =>
        \A n \in 0..S.MaxSafepointNumber :
            S.BBStates[BlockOf(F, S.ReverseSafepointNumbering[n + 1])].Done =>
                /\ Len(S.LiveIfLiveOut[n + 1]) = Cardinality(Range(S.LiveIfLiveOut[n + 1]))
                /\ Range(S.LiveIfLiveOut[n + 1]) =
                        {i \in Ids :
                            /\ BlockOf(F, S.ReversePtrNumbering[i])
                                    = BlockOf(F, S.ReverseSafepointNumbering[n + 1])
                            /\ PosOf(F, S.ReversePtrNumbering[i])
                                    < PosOf(F, S.ReverseSafepointNumbering[n + 1])}

\* The scan is over; a safepoint whose own result has an identifier has a
\* list that holds another identifier, and a safepoint of another block
\* has an empty list.
LiveIfLiveOutExactWitness ==
    /\ pc = "ComputeLiveness"
    /\ \E n \in 0..S.MaxSafepointNumber :
          /\ S.ReverseSafepointNumbering[n + 1] \in Range(S.ReversePtrNumbering)
          /\ S.LiveIfLiveOut[n + 1] # <<>>
          /\ \E m \in 0..S.MaxSafepointNumber :
                /\ BlockOf(F, S.ReverseSafepointNumbering[m + 1])
                        # BlockOf(F, S.ReverseSafepointNumbering[n + 1])
                /\ S.LiveIfLiveOut[m + 1] = <<>>

----------------------------------------------------------------------------
(* The live sets after the refinements.                                     *)

\* C25. After ComputeLiveSets no live set holds an identifier that is
\* refined to -1, or that is refined to an identifier of the same live set;
\* an identifier refined to -1 is in no live set, gets no colour and is
\* never stored to the frame.
RefinementIrredundant ==
    /\ LiveSetsDone =>
            \A n \in SafepointIds : \A i \in S.LiveSets[n + 1] :
                i \in DOMAIN S.LoadRefinements =>
                    /\ S.LoadRefinements[i] # -1
                    /\ S.LoadRefinements[i] \notin S.LiveSets[n + 1]
    /\ Coloured =>
            \A i \in DOMAIN S.LoadRefinements :
                S.LoadRefinements[i] = -1 => CR.Colors[i + 1] = -1
    /\ pc = "CleanupIR" =>
            \A i \in DOMAIN S.LoadRefinements :
                S.LoadRefinements[i] = -1 =>
                    ~\E r \in AllOf("rootstore") :
                        <<r.args[1], r.lanes>> = StoredForId(i)

\* ComputeLiveSets has run; an identifier refined to -1 is live into the
\* block of a safepoint, an identifier with a refinement is in a live set,
\* and another is in none while the identifier it is refined to is in one.
RefinementIrredundantWitness ==
    /\ pc = "ColorRoots"
    /\ \E i \in DOMAIN S.LoadRefinements :
          /\ S.LoadRefinements[i] = -1
          /\ \E n \in SafepointIds :
                i \in S.BBStates[SafepointBlock(F, S, n)].LiveIn
    /\ \E n \in SafepointIds : S.LiveSets[n + 1] \cap DOMAIN S.LoadRefinements # {}
    /\ \E k \in DOMAIN S.LoadRefinements :
          /\ S.LoadRefinements[k] >= 0
          /\ \A n \in SafepointIds : k \notin S.LiveSets[n + 1]
          /\ \E n \in SafepointIds : S.LoadRefinements[k] \in S.LiveSets[n + 1]

----------------------------------------------------------------------------
(* Lifting of derived selects and phis.                                     *)

\* The selects and phis whose result is a derived pointer.
DerivedJoins ==
    {o \in AllValues(F) : o.op \in {"select", "phi"} /\ isSpecialPtr(o.ty) /\ o.ty # "Tracked"}

\* The tracked instructions of the same kind that stand in an unbroken run
\* immediately before o: what LiftSelect and LiftPhi inserted for o.
Counterparts(o) ==
    LET is == F.blocks[BlockOf(F, o.name)].insts
        at == CHOOSE k \in DOMAIN is : is[k].name = o.name
        lift(k) == is[k].op = o.op /\ is[k].ty = "Tracked"
    IN {is[k].name : k \in {j \in 1..(at - 1) : \A m \in j..(at - 1) : lift(m)}}

\* C26. A select or phi whose result is a derived pointer is lifted at most
\* once, however it is reached through Number and through the scan; once
\* numbered, it and its lifted counterpart have the same identifier, whose
\* canonical value is the lifted instruction; after the scan the Defs bit of
\* the identifier is in the block of the original and in no other.
LiftedOnce ==
    \A o \in DerivedJoins :
        /\ Cardinality(Counterparts(o)) <= 1
        /\ Counterparts(o) # {} => o.name \in DOMAIN S.AllPtrNumbering
        /\ (o.name \in DOMAIN S.AllPtrNumbering /\ S.AllPtrNumbering[o.name] >= 0) =>
              /\ \E l \in Counterparts(o) :
                    /\ l \in DOMAIN S.PtrNumbering
                    /\ S.PtrNumbering[l] = S.AllPtrNumbering[o.name]
                    /\ S.AllPtrNumbering[l] = S.AllPtrNumbering[o.name]
                    /\ S.ReversePtrNumbering[S.AllPtrNumbering[o.name]] = l
              /\ ScanDone => DefBlocks(S.AllPtrNumbering[o.name]) = {BlockOf(F, o.name)}

\* The scan is over; a derived select was lifted by Number, reached from a
\* use of a cast of it before the scan came to the select, and has a lifted
\* counterpart.
LiftedOnceWitness ==
    /\ ScanDone
    /\ \E o \in DerivedJoins :
          /\ o.op = "select"
          /\ Counterparts(o) # {}
          /\ \E v \in DOMAIN S.AllPtrNumbering :
                /\ v \notin Counterparts(o) \cup {o.name}
                /\ S.AllPtrNumbering[v] = S.AllPtrNumbering[o.name]

----------------------------------------------------------------------------
(* NumberVector on its own: a vector load and two views of it, numbered in  *)
(* any order.                                                               *)

MaxLanes == 3

NumberVectorCalls == 4

\* Value 3 is a load of a vector of tracked pointers, 4 a view of 3 and 5 a
\* view of 4; a view is a bitcast or a GEP.
VectorViewFunction(lanes, op4, op5) ==
    Function(<<Global(1)>>,
        << Block(<<GetPtls(2), [Load(3, "TrackedVec", 1) EXCEPT !.lanes = lanes],
                   [Cast(4, op4, "TrackedVec", 3) EXCEPT !.lanes = lanes],
                   [Cast(5, op5, "TrackedVec", 4) EXCEPT !.lanes = lanes],
                   Ret(19, <<>>)>>, <<>>) >>,
        StdModule)

VectorViewFamily ==
    {VectorViewFunction(lanes, op4, op5) :
        lanes \in 1..MaxLanes, op4 \in {"bitcast", "gep"}, op5 \in {"bitcast", "gep"}}

NumberVectorInit ==
    /\ F \in VectorViewFamily
    /\ S = EmptyState(F)
    /\ CR = NoColors
    /\ pc = "NumberVector"
    /\ scanBB = 1
    /\ rpoPos = 1
    /\ AnyChanged = FALSE
    /\ Out = <<>>

\* One call NumberVector(S, V); Out keeps the value and the list returned.
NumberVectorCall ==
    /\ pc = "NumberVector"
    /\ Len(Out) < NumberVectorCalls
    /\ \E V \in {3, 4, 5} :
          /\ S' = NumberVector([F |-> F, S |-> S], V).C.S
          /\ Out' = Append(Out, [V |-> V, Nums |-> NumberVector([F |-> F, S |-> S], V).Nums])
    /\ UNCHANGED <<F, pc, scanBB, rpoPos, AnyChanged, CR>>

NumberVectorSpec == NumberVectorInit /\ [][NumberVectorCall]_vars

----------------------------------------------------------------------------
(* The colours ColorRoots assigns.                                          *)

\* The identifiers that are in a final live set.
LiveSomewhere == {i \in Ids : \E n \in SafepointIds : i \in S.LiveSets[n + 1]}

\* C28. After ColorRoots every identifier that is in a final live set has a
\* colour >= 0 and every other identifier has colour -1; the colours in use
\* are exactly 0..MaxColor; every store PlaceGCFrameStore emits goes to a
\* slot of the frame.
ColorsAssigned ==
    /\ Coloured =>
          /\ \A i \in LiveSomewhere : CR.Colors[i + 1] >= 0
          /\ \A i \in Ids \ LiveSomewhere : CR.Colors[i + 1] = -1
          /\ Range(CR.Colors) \ {-1} = 0..MaxColor
    /\ Placed =>
          \A r \in AllOf("rootstore") :
              /\ r.idx >= 2 + NAllocas
              /\ \E g \in AllOf("gcframe") : r.idx < g.idx

\* ColorRoots is over; a call may return twice, so that colours are
\* pre-assigned, the greedy loop gave a colour past the pre-assigned ones, and
\* an identifier is in no live set.
ColorsAssignedWitness ==
    /\ Coloured
    /\ S.ReturnsTwice # <<>>
    /\ CR.PreAssignedColors >= 2
    /\ MaxColor >= CR.PreAssignedColors
    /\ Ids \ LiveSomewhere # {}

----------------------------------------------------------------------------
(* Calls that may return twice.                                             *)

\* C29. Every call recorded in ReturnsTwice is a numbered safepoint, the
\* calls to pointer_from_objref and memcmp included, so that the lookup of
\* its live set in ColorRoots always succeeds.
ReturnsTwiceNumbered ==
    /\ \A k \in DOMAIN S.ReturnsTwice :
          /\ S.ReturnsTwice[k] \in DOMAIN S.SafepointNumbering
          /\ S.SafepointNumbering[S.ReturnsTwice[k]] \in SafepointIds
    /\ pc # "abort"

----------------------------------------------------------------------------
(* The lowering of the variadic-pointer calls in CleanupIR.                 *)

CallsOf(Fn) == {r \in AllValues(Fn) : r.op = "call"}

\* The calls with a variadic-pointer calling convention.
VariadicCalls(Fn) == {r \in CallsOf(Fn) : r.cc \in {"JLCALL", "JLCALL_F"}}

\* The frame arguments of such a call: all of them, but for the leading
\* function argument of the F convention.
FrameArgs(r) == IF r.cc = "JLCALL_F" THEN Tail(r.args) ELSE r.args

MaxFrameArgs(Fn) == MaxOf({Len(FrameArgs(r)) : r \in VariadicCalls(Fn)} \cup {0})

\* The argument arrays of the function.
ArgArrays(Fn) == {a \in AllValues(Fn) : a.op = "alloca" /\ a.elt = "jlcallframe"}

PseudoIntrinsics == {"julia.gcroot_flush", "julia.pointer_from_objref", "julia.gc_alloc_obj"}

\* Call c of Gn is what the call r is lowered to, given the argument arrays
\* of Gn: it is preceded immediately by the stores of r's frame arguments
\* into slots 0..n-1 of the array, in argument order, and takes the array
\* (null when n = 0) and n, after the function argument of the F convention.
LoweredTo(Gn, r, c, arrays) ==
    LET n == Len(FrameArgs(r))
        is == Gn.blocks[BlockOf(Gn, c.name)].insts
        p == PosOf(Gn, c.name)
    IN /\ c.cc = "C"
       /\ c.callee = r.callee
       /\ c.idx = n
       /\ \E last \in (IF n = 0 THEN {NullValue.name} ELSE {a.name : a \in arrays}) :
             /\ c.args = (IF r.cc = "JLCALL_F" THEN <<r.args[1]>> ELSE <<>>) \o <<last>>
             /\ p > n
             /\ \A k \in 1..n :
                   /\ is[p - n + k - 1].op = "store"
                   /\ is[p - n + k - 1].args = <<FrameArgs(r)[k], last>>
                   /\ is[p - n + k - 1].idx = k - 1

VariadicLoweringStep ==
    (pc \in {"CleanupIR", "CleanupOnly"} /\ pc' = "done") =>
        /\ Cardinality(ArgArrays(F')) = (IF MaxFrameArgs(F) = 0 THEN 0 ELSE 1)
        /\ \A a \in ArgArrays(F') :
              a.idx = MaxFrameArgs(F) /\ F'.blocks[1].insts[1] = a
        /\ \A r \in VariadicCalls(F) :
              \E c \in CallsOf(F') : c.name = r.name /\ LoweredTo(F', r, c, ArgArrays(F'))
        /\ \A c \in CallsOf(F') :
              c.cc \notin {"JLCALL", "JLCALL_F"} /\ c.callee \notin PseudoIntrinsics

\* C30. CleanupIR uses one argument array for all the calls with a
\* variadic-pointer calling convention; its length is the largest number of
\* frame arguments of such a call (all arguments, but for the leading
\* function argument of the F convention) and it is removed when that is 0;
\* each such call becomes a call preceded immediately by the stores of its
\* frame arguments into slots 0..n-1 in argument order, taking the array
\* (null when n = 0) and n; afterwards no call has these conventions and no
\* call to the GC-flush, pointer_from_objref or allocation pseudo-intrinsic
\* is left.
VariadicLowering == [][VariadicLoweringStep]_vars

\* The full pass is over in a function whose calls shared an array of two
\* slots: a call of the F convention with one frame argument, and
\* pseudo-intrinsics that were lowered.
VariadicLoweringWitness ==
    /\ pc = "done"
    /\ Out.ptlsStates # -1
    /\ \E a \in ArgArrays(F) :
          /\ a.idx = 2
          /\ \E c \in CallsOf(F) : c.idx = 1 /\ Len(c.args) = 2 /\ c.args[2] = a.name
          /\ \E c \in CallsOf(F) : c.idx = 2 /\ c.args = <<a.name>>
    /\ AllOf("ptrtoint") # {}
    /\ \E c \in CallsOf(F) : c.callee = "jl_gc_pool_alloc"

====
